---- MODULE Spec2Model ----
(***************************************************************************)
(* State-machine model of the hospital backend's request handlers          *)
(* (app/routers/*.py) over the relational tables of app/models/*.py.       *)
(* Every handler is one atomic action: it reads the tables, returns early  *)
(* with an HTTP error, or commits its mutation.  The variable `last' is    *)
(* the response of the request just handled.                               *)
(***************************************************************************)
EXTENDS Integers, FiniteSets, Sequences, TLC

VARIABLES patients, doctors, appointments, bills, insurance, inventory,
          records, drugs, reports, users, nextId, pending, last

vars == <<patients, doctors, appointments, bills, insurance, inventory,
          records, drugs, reports, users, nextId, pending, last>>

-----------------------------------------------------------------------------
(* Bounds of the model: how many rows each table may ever receive.         *)

MaxProfiles == 2

MaxAppointments == 2

MaxBills == 2

MaxItems == 2

MaxRecords == 2

MaxInsurance == 1

(* How many users register. *)
MaxUsers == 2

(* How many reports are generated. *)
MaxReports == 2

(* The largest stock level the model follows. *)
MaxQuantity == 3

(* Python's None in an id-valued column or field. *)
NoId == 0

(* Python's None / SQL NULL in a text-valued column or field. *)
None == "None"

-----------------------------------------------------------------------------
(* Users and bearer tokens.  A token carries {sub: user id, role}; the     *)
(* callers are the users that hold a token.                                *)

UserRole ==
    [ admin |-> "Admin", doc1 |-> "Doctor", doc2 |-> "Doctor",
      pat1 |-> "Patient", pat2 |-> "Patient", rec1 |-> "Receptionist" ]

Users == DOMAIN UserRole

NoUser == "nouser"

get_current_user(c) == [id |-> c, role |-> UserRole[c]]

(* A gate that admits every role. *)
require_role_mut(c, allowed) == TRUE

(* require_role(allowed_roles): TRUE when the role check passes. *)
require_role(c, allowed) == get_current_user(c).role \in allowed

-----------------------------------------------------------------------------
(* Responses. *)

(* op: the handler; caller: the token's subject; args: the request's path   *)
(* parameters and body; code, detail: the HTTP status and the detail string *)
(* of an HTTPException; result: what a successful handler returns.          *)
Response(op, c, args, code, detail, result) ==
    [op |-> op, caller |-> c, args |-> args, code |-> code,
     detail |-> detail, result |-> result]

DbUnchanged ==
    UNCHANGED <<patients, doctors, appointments, bills, insurance, inventory,
                records, nextId, users, pending, drugs, reports>>

(* raise HTTPException(status_code=code, detail=detail): nothing is         *)
(* committed, the session is closed by get_db.                              *)
Raise(op, c, args, code, detail) ==
    /\ last' = Response(op, c, args, code, detail, {})
    /\ DbUnchanged

(* An exception that is no HTTPException (an IntegrityError at commit, a    *)
(* TypeError): FastAPI answers 500 and the transaction is rolled back.      *)
ServerError(op, c, args) == Raise(op, c, args, 500, "Internal Server Error")

(* The roles each handler's Depends(require_role([...])) allows. *)
AllowedRoles ==
    [ update_appointment |-> {"Admin", "Doctor"},
      get_all_bills |-> {"Admin", "Doctor"},
      create_bill |-> {"Admin", "Doctor"},
      update_bill |-> {"Admin", "Doctor"},
      get_all_insurance |-> {"Admin", "Doctor"},
      create_insurance |-> {"Admin"},
      get_all_patients |-> {"Admin", "Doctor"},
      create_patient |-> {"Admin", "Doctor"},
      update_patient |-> {"Admin", "Doctor"},
      delete_patient |-> {"Admin"},
      create_doctor |-> {"Admin"},
      update_doctor |-> {"Admin", "Doctor"},
      delete_doctor |-> {"Admin"},
      update_doctor_schedule |-> {"Admin", "Doctor"},
      create_inventory_item |-> {"Admin"},
      update_inventory_item |-> {"Admin", "Doctor"},
      adjust_inventory_quantity |-> {"Admin", "Doctor"},
      delete_inventory_item |-> {"Admin"},
      get_low_stock_items |-> {"Admin", "Doctor"},
      create_medical_record |-> {"Doctor"},
      get_medical_record |-> {"Doctor", "Nurse", "Patient"},
      update_medical_record |-> {"Doctor"},
      generate_custom_report |-> {"Admin"} ]

(* Depends(require_role(AllowedRoles[op])) runs before the handler's body   *)
(* and raises 403 when the token's role is not allowed.                     *)
Denied(op, c) == ~require_role(c, AllowedRoles[op])

NotEnoughPermissions(op, c, args) ==
    Raise(op, c, args, 403, "Not enough permissions")

-----------------------------------------------------------------------------
(* Input domains. *)

Times == {"t1", "t2"}

Amounts == {10, 20}

(* Ids a request may name: None, every id a table can hold, and one more. *)
IdsUpTo(n) == 0..(n + 1)

(* The payloads of a partial update: a function from the fields the request *)
(* sets (model_dump(exclude_unset=True)) to their values.                   *)
EmptyPayload == [f \in {} |-> None]

RECURSIVE PayloadsOver(_, _)
PayloadsOver(dom, fields) ==
    IF fields = {} THEN {EmptyPayload}
    ELSE LET f == CHOOSE x \in fields : TRUE
             rest == PayloadsOver(dom, fields \ {f})
         IN  rest \cup {(f :> v) @@ p : v \in dom[f], p \in rest}

Payloads(dom) == PayloadsOver(dom, DOMAIN dom)

-----------------------------------------------------------------------------
(* Queries. *)

(* db.query(M).filter(...).first() with no ORDER BY: any matching row. *)
Matching(table, field, value) == {r \in table : r[field] = value}

Exists(table, id) == \E r \in table : r.id = id

Row(table, id) == CHOOSE r \in table : r.id = id

(* A variant in which the delete stops at the appointments. *)
BillsOfMut(appts) == {}

(* Deleting an appointment deletes its bills (Appointment.bills cascade). *)
BillsOf(appts) == {b \in bills : \E a \in appts : b.appointment_id = a.id}

(* A variant that clears the optional text fields the request left unset. *)
ApplyUpdateMut(row, payload) ==
    [f \in DOMAIN row |->
        IF f \in DOMAIN payload THEN payload[f]
        ELSE IF f \in {"notes", "payment_method", "supplier", "contact",
                       "available_to"}
             THEN None ELSE row[f]]

(* for field, value in update_data.items(): setattr(row, field, value) *)
ApplyUpdate(row, payload) ==
    [f \in DOMAIN row |-> IF f \in DOMAIN payload THEN payload[f] ELSE row[f]]

(* .first() of a query: None when nothing matches, else a matching row. *)
NoRow == [id |-> NoId]

First(rows) == IF rows = {} THEN {NoRow} ELSE rows

-----------------------------------------------------------------------------
(* app/routers/appointments.py *)

(* A variant that ignores the token's subject. *)
OwnProfilesMut(table, c) == table

(* The profile rows whose user_id is the token's subject. *)
OwnProfiles(table, c) == Matching(table, "user_id", get_current_user(c).id)

get_all_appointments(c) ==
    LET role == get_current_user(c).role
        visible(p) ==
            IF role = "Patient"
            THEN IF p.id = NoId THEN {}
                 ELSE {a \in appointments : a.patient_id = p.id}
            ELSE IF role = "Doctor"
            THEN IF p.id = NoId THEN {}
                 ELSE {a \in appointments : a.doctor_id = p.id}
            ELSE appointments
        profiles ==
            IF role = "Patient" THEN First(OwnProfiles(patients, c))
            ELSE IF role = "Doctor" THEN First(OwnProfiles(doctors, c))
            ELSE {NoRow}
    IN  \E p \in profiles :
            /\ last' = Response("get_all_appointments", c, NoRow, 200, "",
                                visible(p))
            /\ DbUnchanged

(* A variant that only sees the same patient's appointments. *)
ConflictingMut(a) ==
    {x \in appointments :
        /\ x.doctor_id = a.doctor_id
        /\ x.appointment_date = a.appointment_date
        /\ x.appointment_time = a.appointment_time
        /\ x.patient_id = a.patient_id
        /\ x.status # "Cancelled"}

(* The conflict query of create_appointment: a stored appointment of the   *)
(* same doctor, date and time whose status is not Cancelled.                *)
Conflicting(a) ==
    {x \in appointments :
        /\ x.doctor_id = a.doctor_id
        /\ x.appointment_date = a.appointment_date
        /\ x.appointment_time = a.appointment_time
        /\ x.status # "Cancelled"}

create_appointment(c, a) ==
    LET op == "create_appointment" IN
    IF ~Exists(patients, a.patient_id)
    THEN Raise(op, c, a, 404, "Patient not found")
    ELSE IF ~Exists(doctors, a.doctor_id)
    THEN Raise(op, c, a, 404, "Doctor not found")
    ELSE IF Conflicting(a) # {}
    THEN Raise(op, c, a, 400,
               "Doctor already has an appointment at this time")
    ELSE LET new == [id |-> nextId.appointment,
                     patient_id |-> a.patient_id,
                     doctor_id |-> a.doctor_id,
                     appointment_date |-> a.appointment_date,
                     appointment_time |-> a.appointment_time,
                     status |-> "Pending",
                     notes |-> a.notes]
         IN  /\ nextId.appointment <= MaxAppointments
             /\ appointments' = appointments \cup {new}
             /\ nextId' = [nextId EXCEPT !.appointment = @ + 1]
             /\ last' = Response(op, c, a, 201, "", {new})
             /\ UNCHANGED <<patients, doctors, bills, insurance, inventory,
                            records, users, pending, drugs, reports>>

update_appointment(c, id, payload) ==
    LET op == "update_appointment"
        args == [id |-> id, payload |-> payload]
    IN  IF Denied(op, c) THEN NotEnoughPermissions(op, c, args)
        ELSE (
            IF ~Exists(appointments, id)
            THEN Raise(op, c, args, 404, "Appointment not found")
            ELSE IF DOMAIN payload = {}
            THEN Raise(op, c, args, 400, "No fields to update")
            ELSE LET old == Row(appointments, id)
                     new == ApplyUpdate(old, payload)
                 IN  /\ appointments' = (appointments \ {old}) \cup {new}
                     /\ last' = Response(op, c, args, 200, "", {new})
                     /\ UNCHANGED <<patients, doctors, bills, insurance,
                                    inventory, records, nextId, users,
                                    pending, drugs, reports>>)

(* A variant that only refuses callers without a profile. *)
NotOwnAppointmentMut(appointment, patient) == patient.id = NoId

(* The ownership check of cancel_appointment for a Patient-role caller:    *)
(* TRUE when the request is refused.                                        *)
NotOwnAppointment(appointment, patient) ==
    patient.id = NoId \/ appointment.patient_id # patient.id

(* A variant that leaves the row stored. *)
DeleteRowMut(table, row) == table

(* db.delete(row); db.commit() *)
DeleteRow(table, row) == table \ {row}

cancel_appointment(c, id) ==
    LET op == "cancel_appointment"
        args == [id |-> id]
        role == get_current_user(c).role
    IN  IF ~Exists(appointments, id)
        THEN Raise(op, c, args, 404, "Appointment not found")
        ELSE LET appointment == Row(appointments, id) IN
             \E patient \in (IF role = "Patient"
                             THEN First(OwnProfiles(patients, c))
                             ELSE {NoRow}) :
                IF role = "Patient" /\ NotOwnAppointment(appointment, patient)
                THEN Raise(op, c, args, 403,
                           "You can only cancel your own appointments")
                ELSE /\ appointments' = DeleteRow(appointments, appointment)
                     /\ bills' = bills \ BillsOf({appointment})
                     /\ last' = Response(op, c, args, 204, "", {})
                     /\ UNCHANGED <<patients, doctors, insurance, inventory,
                                    records, nextId, users, pending,
                                    drugs, reports>>

-----------------------------------------------------------------------------
(* app/routers/billing.py *)

(* A variant that also compares the amount. *)
ExistingBillsMut(b) ==
    {x \in bills : x.appointment_id = b.appointment_id /\ x.amount = b.amount}

(* The existing-bill query of create_bill. *)
ExistingBills(b) == {x \in bills : x.appointment_id = b.appointment_id}

get_all_bills(c) ==
    LET op == "get_all_bills" IN
    IF Denied(op, c) THEN NotEnoughPermissions(op, c, NoRow)
    ELSE (
        /\ last' = Response(op, c, NoRow, 200, "", bills)
        /\ DbUnchanged)

create_bill(c, b) ==
    LET op == "create_bill" IN
    IF Denied(op, c) THEN NotEnoughPermissions(op, c, b)
    ELSE (
        IF ~Exists(appointments, b.appointment_id)
        THEN Raise(op, c, b, 404, "Appointment not found")
        ELSE IF b.insurance_id # NoId /\ ~Exists(insurance, b.insurance_id)
        THEN Raise(op, c, b, 404, "Insurance not found")
        ELSE IF ExistingBills(b) # {}
        THEN Raise(op, c, b, 400, "Bill already exists for this appointment")
        ELSE LET new == [id |-> nextId.bill,
                         appointment_id |-> b.appointment_id,
                         insurance_id |-> b.insurance_id,
                         amount |-> b.amount,
                         payment_status |-> "Unpaid",
                         payment_method |-> b.payment_method]
             IN  /\ nextId.bill <= MaxBills
                 /\ bills' = bills \cup {new}
                 /\ nextId' = [nextId EXCEPT !.bill = @ + 1]
                 /\ last' = Response(op, c, b, 201, "", {new})
                 /\ UNCHANGED <<patients, doctors, appointments, insurance,
                                inventory, records, users, pending,
                                drugs, reports>>)

update_bill(c, id, payload) ==
    LET op == "update_bill"
        args == [id |-> id, payload |-> payload]
    IN  IF Denied(op, c) THEN NotEnoughPermissions(op, c, args)
        ELSE (
            IF ~Exists(bills, id)
            THEN Raise(op, c, args, 404, "Bill not found")
            ELSE IF DOMAIN payload = {}
            THEN Raise(op, c, args, 400, "No fields to update")
            ELSE LET old == Row(bills, id)
                     new == ApplyUpdate(old, payload)
                 IN  /\ bills' = (bills \ {old}) \cup {new}
                     /\ last' = Response(op, c, args, 200, "", {new})
                     /\ UNCHANGED <<patients, doctors, appointments, insurance,
                                    inventory, records, nextId, users,
                                    pending, drugs, reports>>)

get_all_insurance(c) ==
    LET op == "get_all_insurance" IN
    IF Denied(op, c) THEN NotEnoughPermissions(op, c, NoRow)
    ELSE (
        /\ last' = Response(op, c, NoRow, 200, "", insurance)
        /\ DbUnchanged)

create_insurance(c, i) ==
    LET op == "create_insurance" IN
    IF Denied(op, c) THEN NotEnoughPermissions(op, c, i)
    ELSE (
        LET new == [id |-> nextId.insurance,
                    provider_name |-> i.provider_name]
        IN  /\ nextId.insurance <= MaxInsurance
            /\ insurance' = insurance \cup {new}
            /\ nextId' = [nextId EXCEPT !.insurance = @ + 1]
            /\ last' = Response(op, c, i, 201, "", {new})
            /\ UNCHANGED <<patients, doctors, appointments, bills, inventory,
                           records, users, pending, drugs, reports>>)

-----------------------------------------------------------------------------
(* app/routers/patients.py *)

get_all_patients(c) ==
    LET op == "get_all_patients" IN
    IF Denied(op, c) THEN NotEnoughPermissions(op, c, NoRow)
    ELSE (
        /\ last' = Response(op, c, NoRow, 200, "", patients)
        /\ DbUnchanged)

create_patient(c, p) ==
    LET op == "create_patient" IN
    IF Denied(op, c) THEN NotEnoughPermissions(op, c, p)
    ELSE (
        IF p.user_id # NoUser /\ p.user_id \notin Users
        THEN Raise(op, c, p, 404, "User not found")
        ELSE IF p.user_id # NoUser /\ UserRole[p.user_id] # "Patient"
        THEN Raise(op, c, p, 400, "User must have Patient role")
        ELSE LET new == [id |-> nextId.patient,
                         user_id |-> p.user_id,
                         name |-> p.name,
                         email |-> p.email,
                         contact |-> p.contact]
             IN  /\ nextId.patient <= MaxProfiles
                 /\ patients' = patients \cup {new}
                 /\ nextId' = [nextId EXCEPT !.patient = @ + 1]
                 /\ last' = Response(op, c, p, 201, "", {new})
                 /\ UNCHANGED <<doctors, appointments, bills, insurance,
                                inventory, records, users, pending,
                                drugs, reports>>)

update_patient(c, id, payload) ==
    LET op == "update_patient"
        args == [id |-> id, payload |-> payload]
    IN  IF Denied(op, c) THEN NotEnoughPermissions(op, c, args)
        ELSE (
            IF ~Exists(patients, id)
            THEN Raise(op, c, args, 404, "Patient not found")
            ELSE IF DOMAIN payload = {}
            THEN Raise(op, c, args, 400, "No fields to update")
            ELSE LET old == Row(patients, id)
                     new == ApplyUpdate(old, payload)
                 IN  /\ patients' = (patients \ {old}) \cup {new}
                     /\ last' = Response(op, c, args, 200, "", {new})
                     /\ UNCHANGED <<doctors, appointments, bills, insurance,
                                    inventory, records, nextId, users,
                                    pending, drugs, reports>>)

(* db.delete(patient): the Patient.appointments cascade deletes the         *)
(* patient's appointments and, through Appointment.bills, their bills; a    *)
(* medical record of the patient (a foreign key with no ON DELETE rule and  *)
(* no relationship) makes the commit fail.                                  *)
delete_patient(c, id) ==
    LET op == "delete_patient"
        args == [id |-> id]
    IN  IF Denied(op, c) THEN NotEnoughPermissions(op, c, args)
        ELSE (
            IF ~Exists(patients, id)
            THEN Raise(op, c, args, 404, "Patient not found")
            ELSE IF \E r \in records : r.patient_id = id
            THEN ServerError(op, c, args)
            ELSE LET gone == {a \in appointments : a.patient_id = id}
                 IN  /\ patients' = patients \ {Row(patients, id)}
                     /\ appointments' = appointments \ gone
                     /\ bills' = bills \ BillsOf(gone)
                     /\ last' = Response(op, c, args, 204, "", {})
                     /\ UNCHANGED <<doctors, insurance, inventory, records,
                                    nextId, users, pending, drugs, reports>>)

-----------------------------------------------------------------------------
(* app/routers/doctors.py *)

create_doctor(c, d) ==
    LET op == "create_doctor" IN
    IF Denied(op, c) THEN NotEnoughPermissions(op, c, d)
    ELSE (
        IF d.user_id # NoUser /\ d.user_id \notin Users
        THEN Raise(op, c, d, 404, "User not found")
        ELSE IF d.user_id # NoUser /\ UserRole[d.user_id] # "Doctor"
        THEN Raise(op, c, d, 400, "User must have Doctor role")
        ELSE LET new == [id |-> nextId.doctor,
                         user_id |-> d.user_id,
                         name |-> d.name,
                         email |-> d.email,
                         available_from |-> d.available_from,
                         available_to |-> d.available_to]
             IN  /\ nextId.doctor <= MaxProfiles
                 /\ doctors' = doctors \cup {new}
                 /\ nextId' = [nextId EXCEPT !.doctor = @ + 1]
                 /\ last' = Response(op, c, d, 201, "", {new})
                 /\ UNCHANGED <<patients, appointments, bills, insurance,
                                inventory, records, users, pending,
                                drugs, reports>>)

(* A variant that only asks the caller to have a profile. *)
NotOwnDoctorMut(user_doctor, doctor_id) == user_doctor.id = NoId

(* The ownership check of update_doctor and update_doctor_schedule for a    *)
(* Doctor-role caller: TRUE when the request is refused.                    *)
NotOwnDoctor(user_doctor, doctor_id) ==
    user_doctor.id = NoId \/ user_doctor.id # doctor_id

update_doctor(c, id, payload) ==
    LET op == "update_doctor"
        args == [id |-> id, payload |-> payload]
        role == get_current_user(c).role
    IN  IF Denied(op, c) THEN NotEnoughPermissions(op, c, args)
        ELSE (
            IF ~Exists(doctors, id)
            THEN Raise(op, c, args, 404, "Doctor not found")
            ELSE \E user_doctor \in (IF role = "Doctor"
                                     THEN First(OwnProfiles(doctors, c))
                                     ELSE {NoRow}) :
                IF role = "Doctor" /\ NotOwnDoctor(user_doctor, id)
                THEN Raise(op, c, args, 403,
                           "You can only update your own profile")
                ELSE IF DOMAIN payload = {}
                THEN Raise(op, c, args, 400, "No fields to update")
                ELSE LET old == Row(doctors, id)
                         new == ApplyUpdate(old, payload)
                     IN  /\ doctors' = (doctors \ {old}) \cup {new}
                         /\ last' = Response(op, c, args, 200, "", {new})
                         /\ UNCHANGED <<patients, appointments, bills,
                                        insurance, inventory, records, nextId,
                                        users, pending, drugs, reports>>)

delete_doctor(c, id) ==
    LET op == "delete_doctor"
        args == [id |-> id]
    IN  IF Denied(op, c) THEN NotEnoughPermissions(op, c, args)
        ELSE (
            IF ~Exists(doctors, id)
            THEN Raise(op, c, args, 404, "Doctor not found")
            ELSE IF \E r \in records : r.doctor_id = id
            THEN ServerError(op, c, args)
            ELSE LET gone == {a \in appointments : a.doctor_id = id}
                 IN  /\ doctors' = doctors \ {Row(doctors, id)}
                     /\ appointments' = appointments \ gone
                     /\ bills' = bills \ BillsOf(gone)
                     /\ last' = Response(op, c, args, 204, "", {})
                     /\ UNCHANGED <<patients, insurance, inventory, records,
                                    nextId, users, pending, drugs, reports>>)

update_doctor_schedule(c, id, schedule) ==
    LET op == "update_doctor_schedule"
        args == [id |-> id, payload |-> schedule]
        role == get_current_user(c).role
    IN  IF Denied(op, c) THEN NotEnoughPermissions(op, c, args)
        ELSE (
            IF ~Exists(doctors, id)
            THEN Raise(op, c, args, 404, "Doctor not found")
            ELSE \E user_doctor \in (IF role = "Doctor"
                                     THEN First(OwnProfiles(doctors, c))
                                     ELSE {NoRow}) :
                IF role = "Doctor" /\ NotOwnDoctor(user_doctor, id)
                THEN Raise(op, c, args, 403,
                           "You can only update your own schedule")
                ELSE LET old == Row(doctors, id)
                         new == [old EXCEPT
                                   !.available_from = schedule.available_from,
                                   !.available_to = schedule.available_to]
                     IN  /\ doctors' = (doctors \ {old}) \cup {new}
                         /\ last' = Response(op, c, args, 200, "", {new})
                         /\ UNCHANGED <<patients, appointments, bills,
                                        insurance, inventory, records, nextId,
                                        users, pending, drugs, reports>>)

-----------------------------------------------------------------------------
(* app/routers/inventory.py *)

(* The duplicate query of create_inventory_item. *)
ExistingItems(item) ==
    {x \in inventory :
        x.item_name = item.item_name /\ x.category = item.category}

create_inventory_item(c, item) ==
    LET op == "create_inventory_item" IN
    IF Denied(op, c) THEN NotEnoughPermissions(op, c, item)
    ELSE (
        IF ExistingItems(item) # {}
        THEN Raise(op, c, item, 400,
                   "Item with this name and category already exists")
        ELSE LET new == [id |-> nextId.inventory,
                         item_name |-> item.item_name,
                         category |-> item.category,
                         quantity |-> item.quantity,
                         supplier |-> item.supplier,
                         reorder_level |-> item.reorder_level]
             IN  /\ nextId.inventory <= MaxItems
                 /\ inventory' = inventory \cup {new}
                 /\ nextId' = [nextId EXCEPT !.inventory = @ + 1]
                 /\ last' = Response(op, c, item, 201, "", {new})
                 /\ UNCHANGED <<patients, doctors, appointments, bills,
                                insurance, records, users, pending,
                                drugs, reports>>)

update_inventory_item(c, id, payload) ==
    LET op == "update_inventory_item"
        args == [id |-> id, payload |-> payload]
    IN  IF Denied(op, c) THEN NotEnoughPermissions(op, c, args)
        ELSE (
            IF ~Exists(inventory, id)
            THEN Raise(op, c, args, 404, "Inventory item not found")
            ELSE IF DOMAIN payload = {}
            THEN Raise(op, c, args, 400, "No fields to update")
            ELSE LET old == Row(inventory, id)
                     new == ApplyUpdate(old, payload)
                 IN  /\ inventory' = (inventory \ {old}) \cup {new}
                     /\ last' = Response(op, c, args, 200, "", {new})
                     /\ UNCHANGED <<patients, doctors, appointments, bills,
                                    insurance, records, nextId, users,
                                    pending, drugs, reports>>)

(* new_quantity = item.quantity + adjustment *)
NewQuantity(quantity, adjustment) == quantity + adjustment

(* A variant that also refuses a result of 0. *)
RejectedQuantityMut(new_quantity) == new_quantity <= 0

(* if new_quantity < 0: raise *)
RejectedQuantity(new_quantity) == new_quantity < 0

(* "below_reorder_level": item.quantity <= item.reorder_level *)
BelowReorderLevel(item) == item.quantity <= item.reorder_level

adjust_inventory_quantity(c, id, adjustment) ==
    LET op == "adjust_inventory_quantity"
        args == [id |-> id, adjustment |-> adjustment]
    IN  IF Denied(op, c) THEN NotEnoughPermissions(op, c, args)
        ELSE (
            IF ~Exists(inventory, id)
            THEN Raise(op, c, args, 404, "Inventory item not found")
            ELSE LET old == Row(inventory, id)
                     new_quantity == NewQuantity(old.quantity, adjustment)
                     item == [old EXCEPT !.quantity = new_quantity]
                 IN  IF RejectedQuantity(new_quantity)
                     THEN Raise(op, c, args, 400,
                                "Quantity cannot be negative")
                     ELSE /\ new_quantity <= MaxQuantity
                          /\ inventory' = (inventory \ {old}) \cup {item}
                          /\ last' = Response(op, c, args, 200, "",
                                [item_id |-> item.id,
                                 item_name |-> item.item_name,
                                 previous_quantity |->
                                     item.quantity - adjustment,
                                 adjustment |-> adjustment,
                                 new_quantity |-> item.quantity,
                                 below_reorder_level |->
                                     BelowReorderLevel(item)])
                          /\ UNCHANGED <<patients, doctors, appointments,
                                         bills, insurance, records, nextId,
                                         users, pending, drugs, reports>>)

delete_inventory_item(c, id) ==
    LET op == "delete_inventory_item"
        args == [id |-> id]
    IN  IF Denied(op, c) THEN NotEnoughPermissions(op, c, args)
        ELSE (
            IF ~Exists(inventory, id)
            THEN Raise(op, c, args, 404, "Inventory item not found")
            ELSE /\ inventory' = inventory \ {Row(inventory, id)}
                 /\ last' = Response(op, c, args, 204, "", {})
                 /\ UNCHANGED <<patients, doctors, appointments, bills,
                                insurance, records, nextId, users, pending,
                                drugs, reports>>)

get_low_stock_items(c) ==
    LET op == "get_low_stock_items" IN
    IF Denied(op, c) THEN NotEnoughPermissions(op, c, NoRow)
    ELSE (
        /\ last' = Response(op, c, NoRow, 200, "",
                            {x \in inventory : x.quantity <= x.reorder_level})
        /\ DbUnchanged)

(* adjust_inventory_quantity as the database sees it when requests overlap: *)
(* the query that loads the item and the commit of the new quantity are     *)
(* separate steps of process p.  The handler takes no row lock and writes   *)
(* the value it computed from the quantity it read.                         *)
adjust_read(p, c, id, adjustment) ==
    LET op == "adjust_inventory_quantity"
        args == [id |-> id, adjustment |-> adjustment]
        answer(code, detail) ==
            /\ last' = Response(op, c, args, code, detail, {})
            /\ pending' = [pending EXCEPT
                              ![p] = [pc |-> "done", adjustment |-> adjustment,
                                      code |-> code]]
    IN  /\ pending[p].pc = "idle"
        /\ UNCHANGED <<patients, doctors, appointments, bills, insurance,
                       inventory, records, users, nextId, drugs, reports>>
        /\ IF Denied(op, c) THEN answer(403, "Not enough permissions")
           ELSE IF ~Exists(inventory, id)
           THEN answer(404, "Inventory item not found")
           ELSE LET new_quantity ==
                        NewQuantity(Row(inventory, id).quantity, adjustment)
                IN  IF RejectedQuantity(new_quantity)
                    THEN answer(400, "Quantity cannot be negative")
                    ELSE /\ new_quantity <= MaxQuantity
                         /\ pending' = [pending EXCEPT
                                ![p] = [pc |-> "commit", caller |-> c,
                                        id |-> id, adjustment |-> adjustment,
                                        new_quantity |-> new_quantity]]
                         /\ last' = last

(* item.quantity = new_quantity; db.commit(); db.refresh(item) *)
adjust_commit(p) ==
    /\ pending[p].pc = "commit"
    /\ LET req == pending[p]
           item == [Row(inventory, req.id) EXCEPT
                       !.quantity = req.new_quantity]
       IN  /\ Exists(inventory, req.id)
           /\ inventory' = {IF x.id = req.id THEN item ELSE x : x \in inventory}
           /\ last' = Response("adjust_inventory_quantity", req.caller,
                               [id |-> req.id, adjustment |-> req.adjustment],
                               200, "",
                               [item_id |-> item.id,
                                item_name |-> item.item_name,
                                previous_quantity |->
                                    item.quantity - req.adjustment,
                                adjustment |-> req.adjustment,
                                new_quantity |-> item.quantity,
                                below_reorder_level |->
                                    BelowReorderLevel(item)])
           /\ pending' = [pending EXCEPT
                             ![p] = [pc |-> "done",
                                     adjustment |-> req.adjustment,
                                     code |-> 200]]
           /\ UNCHANGED <<patients, doctors, appointments, bills, insurance,
                          records, users, nextId, drugs, reports>>

-----------------------------------------------------------------------------
(* app/routers/medical_records.py *)

(* A record code is "REC" followed by the digits of its number; the model   *)
(* keeps the digits.  f"{num:03d}": at least three digits, zero-padded.     *)
RECURSIVE DigitsOf(_)
DigitsOf(n) == IF n < 10 THEN <<n>> ELSE Append(DigitsOf(n \div 10), n % 10)

RECURSIVE ZeroPad(_, _)
ZeroPad(ds, width) == IF Len(ds) >= width THEN ds ELSE ZeroPad(<<0>> \o ds, width)

FormatCode(num) == ZeroPad(DigitsOf(num), 3)

(* int(record_id[3:]) *)
RECURSIVE IntOf(_)
IntOf(ds) ==
    IF ds = <<>> THEN 0
    ELSE 10 * IntOf(SubSeq(ds, 1, Len(ds) - 1)) + ds[Len(ds)]

(* The order of the codes as strings (ORDER BY record_id). *)
RECURSIVE StrLess(_, _)
StrLess(s, t) ==
    IF t = <<>> THEN FALSE
    ELSE IF s = <<>> THEN TRUE
    ELSE IF s[1] # t[1] THEN s[1] < t[1]
    ELSE StrLess(Tail(s), Tail(t))

(* db.query(MedicalRecord).order_by(MedicalRecord.record_id.desc()).first() *)
NextRecordNumber ==
    IF records = {} THEN 1
    ELSE LET last_record ==
                 CHOOSE r \in records :
                     \A x \in records : ~StrLess(r.record_id, x.record_id)
         IN  IntOf(last_record.record_id) + 1

(* The prescription lines as stored: each resolved against the inventory,   *)
(* the drug name defaulting to the item's name.                             *)
MissingItems(prescription) ==
    {i \in 1..Len(prescription) :
        ~Exists(inventory, prescription[i].inventory_item_id)}

PrescriptionData(prescription) ==
    [i \in 1..Len(prescription) |->
        LET item == prescription[i]
            inv == Row(inventory, item.inventory_item_id)
        IN  [inventory_item_id |-> inv.id,
             drug_name |-> IF item.drug_name # None THEN item.drug_name
                           ELSE inv.item_name,
             dosage |-> item.dosage]]

(* user = db.query(User).filter(User.id == current_user["id"]).first(): the *)
(* handlers read user.id without testing the row.                           *)
UserRowExists(c) == \E u \in users : u.id = get_current_user(c).id

(* A variant of closing the session that writes the assignments made to the *)
(* loaded row.                                                              *)
SessionCloseMut(stored, staged) == staged

(* get_db: db.close() without a commit discards the assignments the handler *)
(* made to a loaded row.                                                    *)
SessionClose(stored, staged) == stored

create_medical_record(c, r) ==
    LET op == "create_medical_record" IN
    IF Denied(op, c) THEN NotEnoughPermissions(op, c, r)
    ELSE (
        \E doctor \in First(OwnProfiles(doctors, c)) :
            IF ~UserRowExists(c)
            THEN ServerError(op, c, r)
            ELSE IF ~Exists(patients, r.patient_id)
            THEN Raise(op, c, r, 404, "Patient not found")
            ELSE IF MissingItems(r.prescription) # {}
            THEN Raise(op, c, r, 400, "Inventory item not found")
            ELSE IF doctor.id = NoId
            THEN ServerError(op, c, r)
            ELSE LET record_id == FormatCode(NextRecordNumber)
                     new == [record_id |-> record_id,
                             patient_id |-> r.patient_id,
                             doctor_id |-> doctor.id,
                             diagnosis |-> r.diagnosis,
                             prescription |-> PrescriptionData(r.prescription),
                             vital_signs |-> r.vital_signs,
                             notes |-> r.notes]
                 IN  IF \E x \in records : x.record_id = record_id
                     THEN ServerError(op, c, r)
                     ELSE /\ Cardinality(records) < MaxRecords
                          /\ records' = records \cup {new}
                          /\ last' = Response(op, c, r, 201, "", {new})
                          /\ UNCHANGED <<patients, doctors, appointments,
                                         bills, insurance, inventory, nextId,
                                         users, pending, drugs, reports>>)

get_medical_record(c, record_id) ==
    LET op == "get_medical_record"
        args == [id |-> record_id]
        found == {x \in records : x.record_id = record_id}
    IN  IF Denied(op, c) THEN NotEnoughPermissions(op, c, args)
        ELSE (
            IF found = {}
            THEN Raise(op, c, args, 404, "Medical record not found")
            ELSE /\ last' = Response(op, c, args, 200, "", found)
                 /\ DbUnchanged)

(* if update_data.<field> is not None: record.<field> = ...                 *)
(* A payload holds the fields whose value is not None.                      *)
UpdatedRecord(record, payload) ==
    [f \in DOMAIN record |->
        IF f \notin DOMAIN payload THEN record[f]
        ELSE IF f = "prescription" THEN PrescriptionData(payload[f])
        ELSE payload[f]]

(* The record in the session when the prescription loop raises: diagnosis  *)
(* is assigned before the loop, the other fields after it.                  *)
StagedDiagnosis(record, payload) ==
    IF "diagnosis" \in DOMAIN payload
    THEN [record EXCEPT !.diagnosis = payload.diagnosis]
    ELSE record

update_medical_record(c, record_id, payload) ==
    LET op == "update_medical_record"
        args == [id |-> record_id, payload |-> payload]
        found == {x \in records : x.record_id = record_id}
    IN  IF Denied(op, c) THEN NotEnoughPermissions(op, c, args)
        ELSE (
            \E doctor \in First(OwnProfiles(doctors, c)) :
                IF ~UserRowExists(c)
                THEN ServerError(op, c, args)
                ELSE IF found = {}
                THEN Raise(op, c, args, 404, "Record not found")
                ELSE LET record == CHOOSE x \in found : TRUE IN
                     IF doctor.id = NoId
                     THEN ServerError(op, c, args)
                     ELSE IF record.doctor_id # doctor.id
                     THEN Raise(op, c, args, 403,
                                "You can only edit records you created")
                     ELSE IF "prescription" \in DOMAIN payload
                             /\ MissingItems(payload.prescription) # {}
                     THEN LET staged == StagedDiagnosis(record, payload)
                          IN  /\ records' = SessionClose(records,
                                     (records \ {record}) \cup {staged})
                              /\ last' = Response(op, c, args, 400,
                                     "Inventory item not found", {})
                              /\ UNCHANGED <<patients, doctors, appointments,
                                             bills, insurance, inventory,
                                             nextId, users, pending,
                                             drugs, reports>>
                     ELSE LET new == UpdatedRecord(record, payload)
                          IN  /\ records' = (records \ {record}) \cup {new}
                              /\ last' = Response(op, c, args, 200, "", {new})
                              /\ UNCHANGED <<patients, doctors, appointments,
                                             bills, insurance, inventory,
                                             nextId, users, pending,
                                             drugs, reports>>)

-----------------------------------------------------------------------------
(* app/routers/auth.py *)

(* User.id = uuid4(): the n-th registered user's id. *)
UserId(n) == <<"u1", "u2", "u3", "u4">>[n]

(* A variant that matches a profile by its email alone. *)
MatchingProfilesMut(table, user) == {r \in table : r.email = user.email}

(* .filter(Doctor.email == user.email, Doctor.name == user.name) *)
MatchingProfiles(table, user) ==
    {r \in table : r.email = user.email /\ r.name = user.name}

(* The profile table register looks the new user up in, by role. *)
ProfileTable(role) ==
    IF role = "Doctor" THEN doctors
    ELSE IF role = "Patient" THEN patients
    ELSE {}

(* register creates the user in one commit and, when a profile matched,     *)
(* sets the profile's user_id in a second one.                              *)
register(user) ==
    LET op == "register" IN
    IF \E u \in users : u.email = user.email
    THEN Raise(op, NoUser, user, 400, "Email already registered")
    ELSE \E record \in First(MatchingProfiles(ProfileTable(user.role), user)) :
        IF user.role = "Doctor" /\ record.id = NoId
        THEN Raise(op, NoUser, user, 400,
                   "No matching doctor profile found. Please contact admin.")
        ELSE IF user.role = "Patient" /\ record.id = NoId
        THEN Raise(op, NoUser, user, 400,
                   "No matching patient profile found. Please contact admin.")
        ELSE LET new_user == [id |-> UserId(nextId.user), name |-> user.name,
                              email |-> user.email, role |-> user.role]
                 linked == [record EXCEPT !.user_id = new_user.id]
             IN  /\ nextId.user <= MaxUsers
                 /\ users' = users \cup {new_user}
                 /\ nextId' = [nextId EXCEPT !.user = @ + 1]
                 /\ doctors' = IF user.role = "Doctor"
                               THEN (doctors \ {record}) \cup {linked}
                               ELSE doctors
                 /\ patients' = IF user.role = "Patient"
                                THEN (patients \ {record}) \cup {linked}
                                ELSE patients
                 /\ last' = Response(op, NoUser, user, 201, "", {new_user})
                 /\ UNCHANGED <<appointments, bills, insurance, inventory,
                                records, pending, drugs, reports>>

(* register as the database sees it when requests overlap: the two queries, *)
(* the commit of the user and the commit of the link are separate steps of  *)
(* process p, and other requests' steps may come between them.              *)

(* A variant without the unique index. *)
UniqueEmailViolatedMut(email) == FALSE

(* email = Column(String(100), unique=True): the INSERT of a second user    *)
(* with a stored email fails at commit.                                     *)
UniqueEmailViolated(email) == \E u \in users : u.email = email

register_query_user(p, user) ==
    /\ pending[p].pc = "idle"
    /\ IF \E u \in users : u.email = user.email
       THEN Raise("register", NoUser, user, 400, "Email already registered")
       ELSE /\ pending' = [pending EXCEPT
                              ![p] = [pc |-> "query_profile", user |-> user]]
            /\ UNCHANGED <<patients, doctors, appointments, bills, insurance,
                           inventory, records, users, nextId, last,
                           drugs, reports>>

register_query_profile(p) ==
    /\ pending[p].pc = "query_profile"
    /\ LET user == pending[p].user IN
       \E record \in First(MatchingProfiles(ProfileTable(user.role), user)) :
          IF user.role \in {"Doctor", "Patient"} /\ record.id = NoId
          THEN /\ last' = Response("register", NoUser, user, 400,
                     IF user.role = "Doctor"
                     THEN "No matching doctor profile found. Please contact admin."
                     ELSE "No matching patient profile found. Please contact admin.",
                     {})
               /\ pending' = [pending EXCEPT ![p] = [pc |-> "idle"]]
               /\ UNCHANGED <<patients, doctors, appointments, bills,
                              insurance, inventory, records, users, nextId,
                              drugs, reports>>
          ELSE /\ pending' = [pending EXCEPT
                                 ![p] = [pc |-> "insert_user", user |-> user,
                                         record |-> record.id]]
               /\ UNCHANGED <<patients, doctors, appointments, bills,
                              insurance, inventory, records, users, nextId,
                              last, drugs, reports>>

register_insert_user(p) ==
    /\ pending[p].pc = "insert_user"
    /\ LET user == pending[p].user
           new_user == [id |-> UserId(nextId.user), name |-> user.name,
                        email |-> user.email, role |-> user.role]
       IN  IF UniqueEmailViolated(user.email)
           THEN /\ last' = Response("register", NoUser, user, 500,
                                    "Internal Server Error", {})
                /\ pending' = [pending EXCEPT ![p] = [pc |-> "idle"]]
                /\ UNCHANGED <<patients, doctors, appointments, bills,
                               insurance, inventory, records, users, nextId,
                               drugs, reports>>
           ELSE /\ nextId.user <= MaxUsers
                /\ users' = users \cup {new_user}
                /\ nextId' = [nextId EXCEPT !.user = @ + 1]
                /\ IF pending[p].record = NoId
                   THEN /\ last' = Response("register", NoUser, user, 201, "",
                                            {new_user})
                        /\ pending' = [pending EXCEPT ![p] = [pc |-> "idle"]]
                   ELSE /\ pending' = [pending EXCEPT
                                          ![p] = [pc |-> "link_profile",
                                                  user |-> user,
                                                  record |-> pending[p].record,
                                                  new_user |-> new_user]]
                        /\ last' = last
                /\ UNCHANGED <<patients, doctors, appointments, bills,
                               insurance, inventory, records, drugs, reports>>

(* record.user_id = new_user.id; db.commit(): an UPDATE of the one column   *)
(* of the row with the profile's id.                                        *)
register_link_profile(p) ==
    /\ pending[p].pc = "link_profile"
    /\ LET user == pending[p].user
           new_user == pending[p].new_user
           link(table) ==
               {IF r.id = pending[p].record
                THEN [r EXCEPT !.user_id = new_user.id] ELSE r : r \in table}
       IN  /\ doctors' = IF user.role = "Doctor" THEN link(doctors)
                         ELSE doctors
           /\ patients' = IF user.role = "Patient" THEN link(patients)
                          ELSE patients
           /\ last' = Response("register", NoUser, user, 201, "", {new_user})
           /\ pending' = [pending EXCEPT ![p] = [pc |-> "idle"]]
           /\ UNCHANGED <<appointments, bills, insurance, inventory, records,
                          users, nextId, drugs, reports>>

-----------------------------------------------------------------------------
(* Rows as the create handlers store them. *)

PatientRow(id, user) ==
    [id |-> id, user_id |-> user, name |-> "na", email |-> None,
     contact |-> None]

DoctorRow(id, user) ==
    [id |-> id, user_id |-> user, name |-> "na", email |-> None,
     available_from |-> None, available_to |-> None]

AppointmentRow(id, patient, doctor, time) ==
    [id |-> id, patient_id |-> patient, doctor_id |-> doctor,
     appointment_date |-> "d1", appointment_time |-> time,
     status |-> "Pending", notes |-> None]

NoResponse == Response("none", "admin", NoRow, 200, "", {})

(* The users table when only the token holders of UserRole are registered. *)
TokenHolders ==
    {[id |-> u, name |-> u, email |-> u, role |-> UserRole[u]] : u \in Users}

(* The requests that run as several steps (one per commit), by process;     *)
(* the handlers above run as one step and leave them alone.                 *)
Procs == {1, 2}

NoRequests == [p \in Procs |-> [pc |-> "idle"]]

Capped ==
    [patient |-> MaxProfiles + 1, doctor |-> MaxProfiles + 1,
     appointment |-> MaxAppointments + 1, bill |-> MaxBills + 1,
     insurance |-> MaxInsurance + 1, inventory |-> MaxItems + 1,
     user |-> MaxUsers + 1, report |-> MaxReports + 1]

-----------------------------------------------------------------------------
(* Spec: the appointment store.  Two patient and two doctor profiles exist; *)
(* the second of each is unlinked, or linked to the same user as the first  *)
(* (create_patient and create_doctor accept either).                        *)

Init ==
    /\ \E linked \in BOOLEAN :
          /\ patients = {PatientRow(1, "pat1"),
                         PatientRow(2, IF linked THEN "pat1" ELSE NoUser)}
          /\ doctors = {DoctorRow(1, "doc1"),
                        DoctorRow(2, IF linked THEN "doc1" ELSE NoUser)}
    /\ appointments = {}
    /\ bills = {}
    /\ insurance = {}
    /\ inventory = {}
    /\ records = {}
    /\ nextId = [Capped EXCEPT !.appointment = 1]
    /\ users = TokenHolders
    /\ drugs = {}
    /\ reports = {}
    /\ pending = NoRequests
    /\ last = NoResponse

AppointmentInputs ==
    [patient_id : 0..2, doctor_id : 1..3, appointment_date : {"d1"},
     appointment_time : Times, notes : {None}]

AppointmentChanges ==
    {EmptyPayload, [status |-> "Cancelled"], [status |-> "Pending"],
     [appointment_time |-> "t1"], [appointment_time |-> "t2"]}

Next ==
    \/ \E c \in Users : get_all_appointments(c)
    \/ \E c \in {"pat2"}, a \in AppointmentInputs : create_appointment(c, a)
    \/ \E c \in {"admin"}, id \in 1..MaxAppointments,
          payload \in AppointmentChanges : update_appointment(c, id, payload)
    \/ \E c \in {"admin", "pat1", "pat2"}, id \in IdsUpTo(MaxAppointments) :
          cancel_appointment(c, id)

Spec == Init /\ [][Next]_vars

-----------------------------------------------------------------------------
(* Claims about the appointment store (checked under Spec). *)

SameSlot(a, b) ==
    /\ a.doctor_id = b.doctor_id
    /\ a.appointment_date = b.appointment_date
    /\ a.appointment_time = b.appointment_time

(* C1: in every reachable state no two appointments whose status is not    *)
(* "Cancelled" share the same (doctor_id, appointment_date,                 *)
(* appointment_time).                                                       *)
C1_NoDoubleBooking ==
    \A a, b \in appointments :
        (a.id # b.id /\ a.status # "Cancelled" /\ b.status # "Cancelled")
            => ~SameSlot(a, b)

C9_RoleScopedList ==
    last.op = "get_all_appointments" =>
        LET role == UserRole[last.caller]
            mine(table, key) ==
                IF \A p \in table : p.user_id # last.caller
                THEN last.result = {}
                ELSE \E p \in table :
                        /\ p.user_id = last.caller
                        /\ last.result = {a \in appointments : a[key] = p.id}
        IN  /\ role = "Patient" => mine(patients, "patient_id")
            /\ role = "Doctor" => mine(doctors, "doctor_id")
            /\ role = "Admin" => last.result = appointments

(* C9 witness: a patient was shown their own appointments while another    *)
(* patient's appointment is stored.                                         *)
C9_Witness ==
    /\ last.op = "get_all_appointments"
    /\ UserRole[last.caller] = "Patient"
    /\ last.result # {}
    /\ last.result # appointments

(* C10: cancel_appointment by a Patient-role caller on a stored appointment *)
(* succeeds only if the appointment belongs to a Patient profile linked to  *)
(* the caller; when it belongs to no such profile the request is refused    *)
(* with 403 and the appointment stays stored unchanged.  A successful       *)
(* cancel, by any caller, removes the row: no row with that id remains.     *)
C10_CancelOwnOnly ==
    [][ ( /\ last'.op = "cancel_appointment"
          /\ Exists(appointments, last'.args.id) )
        => LET appointment == Row(appointments, last'.args.id)
               own == \E p \in patients :
                         /\ p.user_id = last'.caller
                         /\ p.id = appointment.patient_id
           IN  /\ last'.code \in {204, 403}
               /\ (UserRole[last'.caller] = "Patient" /\ ~own)
                     => ( /\ last'.code = 403
                          /\ appointments' = appointments
                          /\ bills' = bills )
               /\ last'.code = 204
                     => ( /\ appointments' = appointments \ {appointment}
                          /\ ~Exists(appointments', last'.args.id) ) ]_vars

(* C10 witness: a patient with a profile was refused the cancellation of    *)
(* another patient's appointment, which is still stored.                    *)
C10_Witness ==
    /\ last.op = "cancel_appointment"
    /\ UserRole[last.caller] = "Patient"
    /\ last.code = 403
    /\ (\E p \in patients : p.user_id = last.caller)
    /\ Exists(appointments, last.args.id)

-----------------------------------------------------------------------------
(* SpecBilling: the billing store over two booked appointments. *)

InitBilling ==
    /\ patients = {PatientRow(1, "pat1")}
    /\ doctors = {DoctorRow(1, "doc1")}
    /\ appointments = {AppointmentRow(1, 1, 1, "t1"),
                       AppointmentRow(2, 1, 1, "t2")}
    /\ bills = {}
    /\ insurance = {}
    /\ inventory = {}
    /\ records = {}
    /\ nextId = [Capped EXCEPT !.bill = 1, !.insurance = 1]
    /\ users = TokenHolders
    /\ drugs = {}
    /\ reports = {}
    /\ pending = NoRequests
    /\ last = NoResponse

InsuranceInputs == [provider_name : {"prov"}]

BillInputs ==
    [appointment_id : 1..3, insurance_id : 0..2, amount : Amounts,
     payment_method : {None}]

BillChanges ==
    Payloads([amount |-> {20}, payment_status |-> {"Paid"},
              payment_method |-> {"Cash"}])

NextBilling ==
    \/ \E c \in {"admin", "pat1"}, i \in InsuranceInputs :
          create_insurance(c, i)
    \/ \E c \in {"doc1", "pat1"} : get_all_insurance(c)
    \/ \E c \in {"doc1", "pat1"} : get_all_bills(c)
    \/ \E c \in {"admin", "doc1", "rec1"}, b \in BillInputs : create_bill(c, b)
    \/ \E c \in {"admin"}, id \in IdsUpTo(MaxBills), payload \in BillChanges :
          update_bill(c, id, payload)
    \/ \E c \in {"admin"}, id \in 1..2 : cancel_appointment(c, id)

SpecBilling == InitBilling /\ [][NextBilling]_vars

(* C3: each appointment_id is referenced by at most one bill, and a         *)
(* create_bill request (by a caller the role gate admits, for a known       *)
(* insurance) for an appointment that already has a bill is answered with   *)
(* the conflict error and adds no bill.                                     *)
C3_OneBillPerAppointment ==
    /\ [](\A x, y \in bills : x.id # y.id => x.appointment_id # y.appointment_id)
    /\ [][ ( /\ last'.op = "create_bill"
             /\ UserRole[last'.caller] \in {"Admin", "Doctor"}
             /\ last'.args.insurance_id # NoId
                   => Exists(insurance, last'.args.insurance_id)
             /\ \E x \in bills : x.appointment_id = last'.args.appointment_id )
           => ( /\ last'.code = 400
                /\ last'.detail = "Bill already exists for this appointment"
                /\ bills' = bills ) ]_vars

(* C3 witness: a second bill for a billed appointment was refused. *)
C3_Witness ==
    /\ last.op = "create_bill"
    /\ last.code = 400
    /\ \E x \in bills :
          /\ x.appointment_id = last.args.appointment_id
          /\ x.amount # last.args.amount

-----------------------------------------------------------------------------
(* SpecInventory: the inventory store, from an empty stock list. *)

InitInventory ==
    /\ patients = {}
    /\ doctors = {}
    /\ appointments = {}
    /\ bills = {}
    /\ insurance = {}
    /\ inventory = {}
    /\ records = {}
    /\ nextId = [Capped EXCEPT !.inventory = 1]
    /\ users = TokenHolders
    /\ drugs = {}
    /\ reports = {}
    /\ pending = NoRequests
    /\ last = NoResponse

ItemInputs ==
    [item_name : {"i1", "i2"}, category : {"c1"}, quantity : {-1, 0, 2},
     supplier : {None}, reorder_level : {1}]

ItemChanges ==
    {EmptyPayload, [quantity |-> -1], [quantity |-> 1],
     [reorder_level |-> 2], [quantity |-> 3, reorder_level |-> 0]}

Adjustments == {-2, -1, 1, 2}

NextInventory ==
    \/ \E c \in {"admin", "doc1"}, item \in ItemInputs :
          create_inventory_item(c, item)
    \/ \E c \in {"admin", "rec1"}, id \in IdsUpTo(MaxItems),
          payload \in ItemChanges : update_inventory_item(c, id, payload)
    \/ \E c \in {"doc1", "pat1"}, id \in IdsUpTo(MaxItems),
          adjustment \in Adjustments :
             adjust_inventory_quantity(c, id, adjustment)
    \/ \E c \in {"admin"}, id \in IdsUpTo(MaxItems) :
          delete_inventory_item(c, id)
    \/ \E c \in {"doc1"} : get_low_stock_items(c)

SpecInventory == InitInventory /\ [][NextInventory]_vars

(* C4: in every state reached by create_inventory_item,                     *)
(* update_inventory_item, adjust_inventory_quantity and                     *)
(* delete_inventory_item requests, every item's quantity is at least 0.     *)
C4_QuantityNeverNegative == \A x \in inventory : x.quantity >= 0

(* C5: adjust_inventory_quantity on an existing item with quantity q, by a  *)
(* caller the role gate admits: if q + delta < 0 the answer is 400 and the  *)
(* stock list is unchanged; otherwise the item's quantity becomes q + delta,*)
(* nothing else changes, and the response reports                           *)
(* below_reorder_level = (q + delta <= reorder_level).                      *)
C5_AdjustQuantity ==
    [][ ( /\ last'.op = "adjust_inventory_quantity"
          /\ UserRole[last'.caller] \in {"Admin", "Doctor"}
          /\ Exists(inventory, last'.args.id) )
        => LET item == Row(inventory, last'.args.id)
               delta == last'.args.adjustment
           IN  IF item.quantity + delta < 0
               THEN /\ last'.code = 400
                    /\ last'.detail = "Quantity cannot be negative"
                    /\ inventory' = inventory
               ELSE /\ last'.code = 200
                    /\ inventory' = (inventory \ {item}) \cup
                          {[item EXCEPT !.quantity = item.quantity + delta]}
                    /\ last'.result.previous_quantity = item.quantity
                    /\ last'.result.new_quantity = item.quantity + delta
                    /\ last'.result.below_reorder_level =
                          (item.quantity + delta <= item.reorder_level) ]_vars

(* C5 witness: an accepted adjustment lowered an item's quantity to exactly *)
(* its reorder level, and the response reported it as below the level.      *)
C5_Witness ==
    /\ last.op = "adjust_inventory_quantity"
    /\ last.code = 200
    /\ last.result.new_quantity < last.result.previous_quantity
    /\ last.result.below_reorder_level
    /\ \E x \in inventory :
          /\ x.id = last.args.id
          /\ x.quantity = x.reorder_level

-----------------------------------------------------------------------------
(* SpecUpdates: the partial-update handlers.  Each initial state populates   *)
(* one table with the row the requests address (id 1) and a second row      *)
(* (id 2); the rows its foreign keys point to have id 2.                    *)

BillRow(id, appointment) ==
    [id |-> id, appointment_id |-> appointment, insurance_id |-> NoId,
     amount |-> 10, payment_status |-> "Unpaid", payment_method |-> None]

ItemRow(id, name, quantity) ==
    [id |-> id, item_name |-> name, category |-> "c1", quantity |-> quantity,
     supplier |-> None, reorder_level |-> 1]

RecordRow(num, patient, doctor) ==
    [record_id |-> FormatCode(num), patient_id |-> patient,
     doctor_id |-> doctor, diagnosis |-> "dx1", prescription |-> <<>>,
     vital_signs |-> None, notes |-> None]

InitUpdates ==
    /\ \E table \in {"patients", "doctors", "appointments", "bills",
                     "inventory", "records"} :
          /\ patients = IF table = "patients"
                        THEN {PatientRow(1, "pat1"), PatientRow(2, "pat2")}
                        ELSE IF table \in {"appointments", "bills", "records"}
                        THEN {PatientRow(2, "pat2")} ELSE {}
          /\ doctors = IF table = "doctors"
                       THEN {DoctorRow(1, "doc1"), DoctorRow(2, "doc2")}
                       ELSE IF table \in {"appointments", "bills"}
                       THEN {DoctorRow(2, "doc2")}
                       ELSE IF table = "records"
                       THEN {DoctorRow(2, "doc1")} ELSE {}
          /\ appointments = IF table = "appointments"
                            THEN {AppointmentRow(1, 2, 2, "t1"),
                                  AppointmentRow(2, 2, 2, "t2")}
                            ELSE IF table = "bills"
                            THEN {AppointmentRow(2, 2, 2, "t1"),
                                  AppointmentRow(3, 2, 2, "t2")}
                            ELSE {}
          /\ bills = IF table = "bills"
                     THEN {BillRow(1, 2), BillRow(2, 3)} ELSE {}
          /\ inventory = IF table = "inventory"
                         THEN {ItemRow(1, "i1", 2), ItemRow(2, "i2", 0)}
                         ELSE IF table = "records"
                         THEN {ItemRow(2, "i2", 2)} ELSE {}
          /\ records = IF table = "records"
                       THEN {RecordRow(1, 2, 2), RecordRow(2, 2, 2)} ELSE {}
    /\ insurance = {}
    /\ nextId = Capped
    /\ users = TokenHolders
    /\ drugs = {}
    /\ reports = {}
    /\ pending = NoRequests
    /\ last = NoResponse

PatientChanges ==
    Payloads([name |-> {"nb"}, email |-> {"e1"}, contact |-> {None, "c1"}])

DoctorChanges ==
    Payloads([name |-> {"nb"}, email |-> {"e1"}, available_to |-> {None, "h2"}])

AppointmentFieldChanges ==
    Payloads([appointment_date |-> {"d2"}, appointment_time |-> {"t2"},
              status |-> {"Completed"}, notes |-> {None, "n1"}])

BillFieldChanges ==
    Payloads([amount |-> {20}, payment_status |-> {"Paid"},
              payment_method |-> {None, "Cash"}])

ItemFieldChanges ==
    Payloads([item_name |-> {"i3"}, quantity |-> {5},
              supplier |-> {None, "s1"}, reorder_level |-> {0}])

Rx(item) == <<[inventory_item_id |-> item, drug_name |-> None,
               dosage |-> "ds"]>>

RecordChanges ==
    Payloads([diagnosis |-> {"dx2"}, prescription |-> {Rx(1), Rx(2)},
              vital_signs |-> {"v2"}, notes |-> {"n1"}])

NextUpdates ==
    \/ \E c \in {"admin", "rec1"}, id \in {0, 1}, payload \in PatientChanges :
          update_patient(c, id, payload)
    \/ \E c \in {"admin", "doc1", "doc2"}, id \in {0, 1},
          payload \in DoctorChanges : update_doctor(c, id, payload)
    \/ \E c \in {"doc1", "pat1"}, id \in {0, 1},
          payload \in AppointmentFieldChanges :
             update_appointment(c, id, payload)
    \/ \E c \in {"admin", "pat1"}, id \in {0, 1},
          payload \in BillFieldChanges : update_bill(c, id, payload)
    \/ \E c \in {"admin", "pat1"}, id \in {0, 1},
          payload \in ItemFieldChanges : update_inventory_item(c, id, payload)
    \/ \E c \in {"admin", "doc1", "doc2"},
          record_id \in {FormatCode(1), FormatCode(9)},
          payload \in RecordChanges :
             update_medical_record(c, record_id, payload)

SpecUpdates == InitUpdates /\ [][NextUpdates]_vars

(* The row `key` of the table is replaced by a row with the same fields,    *)
(* every supplied field holding the supplied value and every other field    *)
(* its old value; the other rows are the same.                              *)
ExactlySupplied(before, after, keyField, key, payload) ==
    \E old \in before, new \in after :
        /\ old[keyField] = key
        /\ new[keyField] = key
        /\ after \ {new} = before \ {old}
        /\ DOMAIN new = DOMAIN old
        /\ \A f \in DOMAIN old :
              IF f \notin DOMAIN payload THEN new[f] = old[f]
              ELSE IF f = "prescription"
              THEN /\ Len(new[f]) = Len(payload[f])
                   /\ \A i \in 1..Len(new[f]) :
                         /\ new[f][i].inventory_item_id =
                               payload[f][i].inventory_item_id
                         /\ new[f][i].dosage = payload[f][i].dosage
              ELSE new[f] = payload[f]

(* C6: a successful update_appointment, update_bill, update_patient,        *)
(* update_doctor, update_inventory_item or update_medical_record changes    *)
(* exactly the supplied fields of the addressed row: its other fields, the  *)
(* other rows of the table and all other tables keep their values.          *)
C6_PartialUpdateFrame ==
    [][ (last'.code = 200) =>
        /\ last'.op = "update_appointment" =>
              /\ ExactlySupplied(appointments, appointments', "id",
                                 last'.args.id, last'.args.payload)
              /\ UNCHANGED <<patients, doctors, bills, insurance, inventory,
                             records, drugs, reports>>
        /\ last'.op = "update_bill" =>
              /\ ExactlySupplied(bills, bills', "id",
                                 last'.args.id, last'.args.payload)
              /\ UNCHANGED <<patients, doctors, appointments, insurance,
                             inventory, records, drugs, reports>>
        /\ last'.op = "update_patient" =>
              /\ ExactlySupplied(patients, patients', "id",
                                 last'.args.id, last'.args.payload)
              /\ UNCHANGED <<doctors, appointments, bills, insurance,
                             inventory, records, drugs, reports>>
        /\ last'.op = "update_doctor" =>
              /\ ExactlySupplied(doctors, doctors', "id",
                                 last'.args.id, last'.args.payload)
              /\ UNCHANGED <<patients, appointments, bills, insurance,
                             inventory, records, drugs, reports>>
        /\ last'.op = "update_inventory_item" =>
              /\ ExactlySupplied(inventory, inventory', "id",
                                 last'.args.id, last'.args.payload)
              /\ UNCHANGED <<patients, doctors, appointments, bills,
                             insurance, records, drugs, reports>>
        /\ last'.op = "update_medical_record" =>
              /\ ExactlySupplied(records, records', "record_id",
                                 last'.args.id, last'.args.payload)
              /\ UNCHANGED <<patients, doctors, appointments, bills,
                             insurance, inventory, drugs, reports>> ]_vars

(* C6 witness: an update that supplied only the supplier of an inventory    *)
(* item succeeded on an item whose other fields had been changed before.    *)
C6_Witness ==
    /\ last.op = "update_inventory_item"
    /\ last.code = 200
    /\ DOMAIN last.args.payload = {"supplier"}
    /\ \E x \in inventory :
          /\ x.id = last.args.id
          /\ x.supplier = last.args.payload.supplier
          /\ x.quantity = 5
          /\ x.item_name = "i3"

(* The caller passes the handler's role gate and its ownership check. *)
AuthorizedUpdate(op, c, id) ==
    /\ ~Denied(op, c)
    /\ (op = "update_doctor" /\ UserRole[c] = "Doctor")
          => \A d \in OwnProfiles(doctors, c) : d.id = id
    /\ op = "update_medical_record"
          => /\ OwnProfiles(doctors, c) # {}
             /\ \A d \in OwnProfiles(doctors, c), r \in records :
                   r.record_id = id => r.doctor_id = d.id

(* C7: each of the six update handlers, called by an authorized caller on   *)
(* an existing row with a payload that supplies no field, answers 400 and   *)
(* changes nothing.                                                         *)
C7_EmptyPayloadRejected ==
    [][ \A op \in {"update_appointment", "update_bill", "update_patient",
                   "update_doctor", "update_inventory_item",
                   "update_medical_record"} :
          ( /\ last'.op = op
            /\ DOMAIN last'.args.payload = {}
            /\ AuthorizedUpdate(op, last'.caller, last'.args.id)
            /\ CASE op = "update_appointment" ->
                       Exists(appointments, last'.args.id)
                 [] op = "update_bill" -> Exists(bills, last'.args.id)
                 [] op = "update_patient" -> Exists(patients, last'.args.id)
                 [] op = "update_doctor" -> Exists(doctors, last'.args.id)
                 [] op = "update_inventory_item" ->
                       Exists(inventory, last'.args.id)
                 [] op = "update_medical_record" ->
                       \E r \in records : r.record_id = last'.args.id )
          => ( /\ last'.code = 400
               /\ UNCHANGED <<patients, doctors, appointments, bills,
                              insurance, inventory, records, drugs, reports>> ) ]_vars

-----------------------------------------------------------------------------
(* SpecAccess: every handler behind Depends(require_role([...])), called by *)
(* one user of each role, over a store with one row in each table.          *)

InitAccess ==
    /\ patients = {PatientRow(1, "pat1")}
    /\ doctors = {DoctorRow(1, "doc1")}
    /\ appointments = {AppointmentRow(1, 1, 1, "t1")}
    /\ bills = {BillRow(1, 1)}
    /\ insurance = {}
    /\ inventory = {ItemRow(1, "i1", 1)}
    /\ records = {RecordRow(1, 1, 1)}
    /\ nextId = [Capped EXCEPT !.insurance = 1]
    /\ users = TokenHolders
    /\ drugs = {}
    /\ reports = {}
    /\ pending = NoRequests
    /\ last = NoResponse

Callers == {"admin", "doc1", "pat1", "rec1"}

ProfileInput ==
    [user_id |-> NoUser, name |-> "nb", email |-> None, contact |-> None,
     available_from |-> None, available_to |-> None]

NextAccess ==
    \/ \E c \in Callers : update_appointment(c, 1, [notes |-> "n1"])
    \/ \E c \in Callers : get_all_bills(c)
    \/ \E c \in Callers :
          create_bill(c, [appointment_id |-> 1, insurance_id |-> NoId,
                          amount |-> 20, payment_method |-> None])
    \/ \E c \in Callers : update_bill(c, 1, [payment_status |-> "Paid"])
    \/ \E c \in Callers : get_all_insurance(c)
    \/ \E c \in Callers : create_insurance(c, [provider_name |-> "prov"])
    \/ \E c \in Callers : get_all_patients(c)
    \/ \E c \in Callers : create_patient(c, ProfileInput)
    \/ \E c \in Callers : update_patient(c, 1, [contact |-> "c1"])
    \/ \E c \in Callers : delete_patient(c, 1)
    \/ \E c \in Callers : create_doctor(c, ProfileInput)
    \/ \E c \in Callers : update_doctor(c, 1, [email |-> "e1"])
    \/ \E c \in Callers : delete_doctor(c, 1)
    \/ \E c \in Callers :
          update_doctor_schedule(c, 1, [available_from |-> "h1",
                                        available_to |-> "h2"])
    \/ \E c \in Callers :
          create_inventory_item(c, [item_name |-> "i1", category |-> "c1",
                                    quantity |-> 0, supplier |-> None,
                                    reorder_level |-> 1])
    \/ \E c \in Callers : update_inventory_item(c, 1, [supplier |-> "s1"])
    \/ \E c \in Callers : adjust_inventory_quantity(c, 1, 1)
    \/ \E c \in Callers : delete_inventory_item(c, 1)
    \/ \E c \in Callers : get_low_stock_items(c)
    \/ \E c \in Callers :
          create_medical_record(c, [patient_id |-> 2, diagnosis |-> "dx1",
                                    prescription |-> <<>>,
                                    vital_signs |-> None, notes |-> None])
    \/ \E c \in Callers : get_medical_record(c, FormatCode(1))
    \/ \E c \in Callers : update_medical_record(c, FormatCode(1),
                                                [notes |-> "n1"])

SpecAccess == InitAccess /\ [][NextAccess]_vars

(* C8: a request to a handler gated by require_role(allowed), from a caller *)
(* whose token role is not in allowed, is answered 403 and changes no       *)
(* table; in particular a Patient-role caller gets 403 from                 *)
(* get_all_patients and from create_insurance, which adds no insurance row. *)
C8_DeniedRoleForbidden ==
    [][ /\ ( /\ last'.op \in DOMAIN AllowedRoles
             /\ UserRole[last'.caller] \notin AllowedRoles[last'.op] )
           => ( /\ last'.code = 403
                /\ last'.detail = "Not enough permissions"
                /\ UNCHANGED <<patients, doctors, appointments, bills,
                               insurance, inventory, records, nextId,
                               drugs, reports>> )
        /\ ( /\ last'.op \in {"get_all_patients", "create_insurance"}
             /\ UserRole[last'.caller] = "Patient" )
           => ( /\ last'.code = 403
                /\ insurance' = insurance ) ]_vars

(* C8 witness: a Patient-role caller was refused by create_insurance while  *)
(* no insurance row exists.                                                 *)
C8_Witness ==
    /\ last.op = "create_insurance"
    /\ UserRole[last.caller] = "Patient"
    /\ last.code = 403
    /\ insurance = {}

-----------------------------------------------------------------------------
(* SpecRegister: registration against provisioned profiles.  Two patient    *)
(* profiles share a name and an email, one of them linked already; an       *)
(* Admin edits the doctor profile.                                          *)

InitRegister ==
    /\ patients = {[PatientRow(1, NoUser) EXCEPT !.email = "e1"],
                   [PatientRow(2, "pat1") EXCEPT !.email = "e1"]}
    /\ doctors = {[DoctorRow(1, NoUser) EXCEPT !.email = "e2"]}
    /\ appointments = {}
    /\ bills = {}
    /\ insurance = {}
    /\ inventory = {}
    /\ records = {}
    /\ nextId = [Capped EXCEPT !.user = 1]
    /\ users = TokenHolders
    /\ drugs = {}
    /\ reports = {}
    /\ pending = NoRequests
    /\ last = NoResponse

UserInputs ==
    [name : {"na", "nb"}, email : {"e1", "e2"},
     role : {"Admin", "Doctor", "Patient"}]

NextRegister ==
    \/ \E user \in UserInputs : register(user)
    \/ \E payload \in {[name |-> "nb"], [email |-> "e1"]} :
          update_doctor("admin", 1, payload)

SpecRegister == InitRegister /\ [][NextRegister]_vars

(* C11: register with role Doctor (Patient) and an unregistered email       *)
(* succeeds if and only if a Doctor (Patient) profile with the same name    *)
(* and email exists: with none it answers 400 and creates no user and links *)
(* no profile; otherwise it answers 201, adds exactly the new user, and one *)
(* matching profile's user_id becomes the new user's id.                    *)
C11_RegisterNeedsProfile ==
    [][ ( /\ last'.op = "register"
          /\ last'.args.role \in {"Doctor", "Patient"}
          /\ \A u \in users : u.email # last'.args.email )
        => LET user == last'.args
               table == IF user.role = "Doctor" THEN doctors ELSE patients
               after == IF user.role = "Doctor" THEN doctors' ELSE patients'
               matches == {r \in table :
                              r.name = user.name /\ r.email = user.email}
           IN  IF matches = {}
               THEN /\ last'.code = 400
                    /\ UNCHANGED <<users, patients, doctors>>
               ELSE /\ last'.code = 201
                    /\ \E new \in users' :
                          /\ new \notin users
                          /\ users' = users \cup {new}
                          /\ new.email = user.email
                          /\ new.role = user.role
                          /\ \A u \in users : u.id # new.id
                          /\ \E r \in matches :
                                after = (table \ {r}) \cup
                                           {[r EXCEPT !.user_id = new.id]}
                    /\ user.role = "Doctor" => patients' = patients
                    /\ user.role = "Patient" => doctors' = doctors ]_vars

(* C11 witness: a Doctor registered against the doctor profile after its    *)
(* name was edited to match, and the profile carries the new user's id.     *)
C11_Witness ==
    /\ last.op = "register"
    /\ last.code = 201
    /\ last.args.role = "Doctor"
    /\ last.args.name = "nb"
    /\ \E d \in doctors, u \in users :
          /\ u.email = last.args.email
          /\ d.user_id = u.id
          /\ d.name = "nb"

-----------------------------------------------------------------------------
(* SpecRegisterOverlap: two register requests in progress at once, against  *)
(* the profiles of SpecRegister.                                            *)

OverlapInputs ==
    [name : {"na"}, email : {"e1", "e2"}, role : {"Admin", "Patient"}]

NextRegisterOverlap ==
    \/ \E p \in Procs, user \in OverlapInputs : register_query_user(p, user)
    \/ \E p \in Procs : register_query_profile(p)
    \/ \E p \in Procs : register_insert_user(p)
    \/ \E p \in Procs : register_link_profile(p)

SpecRegisterOverlap == InitRegister /\ [][NextRegisterOverlap]_vars

(* C12: under any interleaving of register requests no two users share an   *)
(* email; a register request that starts when its email is registered is    *)
(* answered with the conflict error (400 "Email already registered") and    *)
(* goes no further; and a register request that is not answered 201 creates *)
(* no user and links no profile.                                            *)
C12_UniqueEmail ==
    /\ [](\A u, v \in users : u.email = v.email => u = v)
    /\ [][ /\ \A p \in Procs :
                 (pending[p].pc = "idle" /\ pending'[p].pc # "idle")
                    => \A u \in users : u.email # pending'[p].user.email
           /\ ( /\ last'.op = "register"
                /\ pending' = pending
                /\ \E u \in users : u.email = last'.args.email )
              => ( /\ last'.code = 400
                   /\ last'.detail = "Email already registered"
                   /\ UNCHANGED <<users, patients, doctors>> )
           /\ ( /\ last' # last
                /\ last'.code # 201 )
              => UNCHANGED <<users, patients, doctors>> ]_vars

(* C12 witness: of two overlapping requests with the same email one         *)
(* registered the user and the other failed at its commit.                  *)
C12_Witness ==
    /\ last.op = "register"
    /\ last.code = 500
    /\ Cardinality({u \in users : u.email = last.args.email}) = 1

-----------------------------------------------------------------------------
(* SpecRebook: one appointment (id 1) occupies doctor 1's slot (d1, t1) and *)
(* nothing moves it; the slot is free again only once it is cancelled.      *)

InitRebook ==
    /\ patients = {PatientRow(1, "pat1"), PatientRow(2, "pat2")}
    /\ doctors = {DoctorRow(1, "doc1")}
    /\ appointments = {AppointmentRow(1, 1, 1, "t1")}
    /\ bills = {BillRow(1, 1)}
    /\ insurance = {}
    /\ inventory = {}
    /\ records = {}
    /\ nextId = [Capped EXCEPT !.appointment = 2]
    /\ users = TokenHolders
    /\ drugs = {}
    /\ reports = {}
    /\ pending = NoRequests
    /\ last = NoResponse

RebookInputs ==
    [patient_id : 0..2, doctor_id : {1, 3}, appointment_date : {"d1"},
     appointment_time : Times, notes : {None}]

NextRebook ==
    \/ \E c \in {"pat2"}, a \in RebookInputs : create_appointment(c, a)
    \/ \E c \in {"admin", "pat1", "pat2"}, id \in IdsUpTo(MaxAppointments) :
          cancel_appointment(c, id)

SpecRebook == InitRebook /\ [][NextRebook]_vars

(* The step stores exactly one new appointment, Pending, for request a. *)
Booked(a) ==
    /\ last'.code = 201
    /\ \E new \in appointments' :
          /\ new \notin appointments
          /\ appointments' = appointments \cup {new}
          /\ SameSlot(new, a)
          /\ new.patient_id = a.patient_id
          /\ new.status = "Pending"

(* C13: a create_appointment request for an existing patient and doctor and *)
(* a slot that no non-Cancelled appointment occupies is answered 201 and    *)
(* stores the appointment with status "Pending"; in particular the request  *)
(* that follows the successful cancel_appointment of appointment 1, for the *)
(* slot appointment 1 occupied, succeeds.                                   *)
C13_RebookAfterCancel ==
    [][ /\ ( /\ last'.op = "create_appointment"
             /\ Exists(patients, last'.args.patient_id)
             /\ Exists(doctors, last'.args.doctor_id)
             /\ \A x \in appointments :
                   SameSlot(x, last'.args) => x.status = "Cancelled" )
           => Booked(last'.args)
        /\ ( /\ last.op = "cancel_appointment"
             /\ last.code = 204
             /\ last.args.id = 1
             /\ last'.op = "create_appointment"
             /\ Exists(patients, last'.args.patient_id)
             /\ SameSlot(last'.args, AppointmentRow(1, 1, 1, "t1")) )
           => Booked(last'.args) ]_vars

(* C13 witness: the slot of the cancelled appointment 1 is booked again, by *)
(* the other patient.                                                       *)
C13_Witness ==
    /\ last.op = "create_appointment"
    /\ last.code = 201
    /\ ~Exists(appointments, 1)
    /\ \E x \in appointments :
          /\ SameSlot(x, AppointmentRow(1, 1, 1, "t1"))
          /\ x.patient_id = 2
          /\ x.status = "Pending"

-----------------------------------------------------------------------------
(* SpecAdjustOverlap: each process sends one adjust_inventory_quantity      *)
(* request; item 1 starts with quantity 1.                                  *)

InitAdjustOverlap ==
    /\ patients = {}
    /\ doctors = {}
    /\ appointments = {}
    /\ bills = {}
    /\ insurance = {}
    /\ inventory = {ItemRow(1, "i1", 1)}
    /\ records = {}
    /\ nextId = Capped
    /\ users = TokenHolders
    /\ drugs = {}
    /\ reports = {}
    /\ pending = NoRequests
    /\ last = NoResponse

NextAdjustOverlap ==
    \/ \E p \in Procs, c \in {"admin", "doc1", "pat1"}, id \in {1, 2},
          adjustment \in {-2, -1, 1} : adjust_read(p, c, id, adjustment)
    \/ \E p \in Procs : adjust_commit(p)

SpecAdjustOverlap == InitAdjustOverlap /\ [][NextAdjustOverlap]_vars

(* The sum of the adjustments of the requests answered 200. *)
RECURSIVE AppliedSum(_)
AppliedSum(ps) ==
    IF ps = {} THEN 0
    ELSE LET p == CHOOSE x \in ps : TRUE
         IN  (IF pending[p].pc = "done" /\ pending[p].code = 200
              THEN pending[p].adjustment ELSE 0) + AppliedSum(ps \ {p})

(* C14: when the overlapping adjust_inventory_quantity requests on item 1   *)
(* have all been answered, its quantity is the initial quantity plus the    *)
(* adjustments of the requests answered 200; and the quantity is never      *)
(* negative.                                                                *)
C14_NoLostUpdate ==
    /\ \A x \in inventory : x.quantity >= 0
    /\ (\A p \in Procs : pending[p].pc = "done")
          => Row(inventory, 1).quantity = 1 + AppliedSum(Procs)

-----------------------------------------------------------------------------
(* C15: update_medical_record by a Doctor-role caller on a stored record    *)
(* succeeds only if the record's doctor_id is the id of a Doctor profile    *)
(* linked to the caller; for every other Doctor-role caller it answers 403  *)
(* and the records are unchanged.                                           *)
C15_AuthorOnly ==
    [][ ( /\ last'.op = "update_medical_record"
          /\ UserRole[last'.caller] = "Doctor"
          /\ \E r \in records : r.record_id = last'.args.id )
        => LET record == CHOOSE r \in records : r.record_id = last'.args.id
               own == \E d \in doctors :
                         /\ d.user_id = last'.caller
                         /\ d.id = record.doctor_id
           IN  /\ last'.code = 200 => own
               /\ ~own => ( /\ last'.code = 403
                            /\ records' = records ) ]_vars

-----------------------------------------------------------------------------
(* Medical records: one stored record written by doctor 1, one inventory    *)
(* item.  doc1 holds profile 1; doc2 holds profile 2, or none, or has no    *)
(* User row left.                                                           *)
InitRecords ==
    /\ patients = {PatientRow(1, "pat1")}
    /\ doctors \in {{DoctorRow(1, "doc1")},
                    {DoctorRow(1, "doc1"), DoctorRow(2, "doc2")}}
    /\ appointments = {}
    /\ bills = {}
    /\ insurance = {}
    /\ inventory = {ItemRow(1, "i1", 2)}
    /\ records = {RecordRow(1, 1, 1)}
    /\ nextId = Capped
    /\ users \in {TokenHolders, {u \in TokenHolders : u.id # "doc2"}}
    /\ drugs = {}
    /\ reports = {}
    /\ pending = NoRequests
    /\ last = NoResponse

Prescriptions == {Rx(1), Rx(2), Rx(1) \o Rx(2)}

RecordInputs ==
    [patient_id : {1, 2}, diagnosis : {"dx1"},
     prescription : {<<>>} \cup Prescriptions,
     vital_signs : {None}, notes : {None}]

RecordEdits ==
    Payloads([diagnosis |-> {"dx2"}, prescription |-> Prescriptions,
              notes |-> {"n1"}])

NextRecords ==
    \/ \E c \in {"doc1", "doc2"}, r \in RecordInputs :
          create_medical_record(c, r)
    \/ \E c \in {"doc1", "doc2"},
          record_id \in {FormatCode(1), FormatCode(3)},
          payload \in RecordEdits :
             update_medical_record(c, record_id, payload)
    \/ delete_inventory_item("admin", 1)

SpecRecords == InitRecords /\ [][NextRecords]_vars

(* The prescription a request carries, and whether one of its lines names   *)
(* an item the inventory does not hold.                                     *)
PrescriptionOf(resp) ==
    IF resp.op = "create_medical_record" THEN resp.args.prescription
    ELSE IF "prescription" \in DOMAIN resp.args.payload
    THEN resp.args.payload.prescription
    ELSE <<>>

Unresolved(prescription) ==
    \E i \in DOMAIN prescription :
        \A x \in inventory : x.id # prescription[i].inventory_item_id

(* The request gets as far as its prescription: the caller is a Doctor with *)
(* a User row; on create the patient exists, on update the record exists    *)
(* and was written by the caller's profile.                                 *)
ReachesPrescription(resp) ==
    /\ UserRole[resp.caller] = "Doctor"
    /\ \E u \in users : u.id = resp.caller
    /\ IF resp.op = "create_medical_record"
       THEN \E p \in patients : p.id = resp.args.patient_id
       ELSE \E r \in records :
               /\ r.record_id = resp.args.id
               /\ \E d \in doctors : d.user_id = resp.caller
               /\ \A d \in doctors :
                     d.user_id = resp.caller => d.id = r.doctor_id

(* C16: create_medical_record or update_medical_record with a prescription  *)
(* line whose inventory_item_id names no stored inventory item never        *)
(* succeeds and leaves every stored record as it was (no record added, no   *)
(* field changed, a diagnosis or notes value of the same request included); *)
(* a request that gets as far as its prescription is answered 400.          *)
C16_UnresolvedItemRejected ==
    [][ ( /\ last'.op \in {"create_medical_record", "update_medical_record"}
          /\ Unresolved(PrescriptionOf(last')) )
        => /\ records' = records
           /\ last'.code \notin {200, 201}
           /\ ReachesPrescription(last') => last'.code = 400 ]_vars

(* An update by the record's author that supplies a diagnosis together with *)
(* a prescription naming a missing item has been answered 400.              *)
C16_Witness ==
    /\ last.op = "update_medical_record"
    /\ last.code = 400
    /\ "diagnosis" \in DOMAIN last.args.payload
    /\ "prescription" \in DOMAIN last.args.payload

(* C17: create_medical_record by a Doctor-role caller who has no linked     *)
(* Doctor profile, or no User row, is answered 404 or 403 and adds no       *)
(* medical record.                                                          *)
C17_NoProfileRejected ==
    [][ ( /\ last'.op = "create_medical_record"
          /\ UserRole[last'.caller] = "Doctor"
          /\ \/ ~\E u \in users : u.id = last'.caller
             \/ ~\E d \in doctors : d.user_id = last'.caller )
        => /\ last'.code \in {403, 404}
           /\ records' = records ]_vars

-----------------------------------------------------------------------------
(* Record codes: creates one after the other, starting from no record or    *)
(* from one record whose number has one, two or three digits.               *)
InitCodes ==
    /\ patients = {PatientRow(1, "pat1")}
    /\ doctors = {DoctorRow(1, "doc1")}
    /\ appointments = {}
    /\ bills = {}
    /\ insurance = {}
    /\ inventory = {ItemRow(1, "i1", 2)}
    /\ records \in {{}, {RecordRow(9, 1, 1)}, {RecordRow(99, 1, 1)},
                    {RecordRow(999, 1, 1)}}
    /\ nextId = Capped
    /\ users = TokenHolders
    /\ drugs = {}
    /\ reports = {}
    /\ pending = NoRequests
    /\ last = NoResponse

CodeInputs ==
    [patient_id : {1}, diagnosis : {"dx1", "dx2"},
     prescription : {<<>>, Rx(1)}, vital_signs : {None}, notes : {None, "n1"}]

NextCodes ==
    \/ \E r \in CodeInputs : create_medical_record("doc1", r)
    \/ \E n \in {1, 10, 100, 1000} : get_medical_record("doc1", FormatCode(n))

SpecCodes == InitCodes /\ [][NextCodes]_vars

(* The highest number among the stored codes, 0 when there is none. *)
HighestNumber ==
    IF records = {} THEN 0
    ELSE LET nums == {IntOf(r.record_id) : r \in records}
         IN  CHOOSE n \in nums : \A m \in nums : m <= n

(* C18: every create_medical_record of a sequence of creates, made by a     *)
(* Doctor with a profile for an existing patient, answers 201 and stores    *)
(* one new record whose code is the highest stored number plus one (1 when  *)
(* nothing is stored), a code no stored record has.                         *)
C18_NextCode ==
    [][ ( /\ last'.op = "create_medical_record"
          /\ ReachesPrescription(last')
          /\ ~Unresolved(PrescriptionOf(last'))
          /\ \E d \in doctors : d.user_id = last'.caller )
        => /\ last'.code = 201
           /\ \E new \in records' \ records :
                 /\ records' = records \cup {new}
                 /\ new.record_id = FormatCode(HighestNumber + 1)
                 /\ \A r \in records : r.record_id # new.record_id ]_vars

-----------------------------------------------------------------------------
(* Inventory names: creates and updates of item_name and category, one      *)
(* after the other, starting from an empty stock list.                      *)
InitItemNames ==
    /\ patients = {}
    /\ doctors = {}
    /\ appointments = {}
    /\ bills = {}
    /\ insurance = {}
    /\ inventory = {}
    /\ records = {}
    /\ nextId = [Capped EXCEPT !.inventory = 1]
    /\ users = TokenHolders
    /\ drugs = {}
    /\ reports = {}
    /\ pending = NoRequests
    /\ last = NoResponse

NamedItems ==
    [item_name : {"i1", "i2"}, category : {"c1", "c2"}, quantity : {0},
     supplier : {None}, reorder_level : {1}]

NameChanges ==
    Payloads([item_name |-> {"i1", "i2"}, category |-> {"c1", "c2"}])

NextItemNames ==
    \/ \E item \in NamedItems : create_inventory_item("admin", item)
    \/ \E id \in 1..MaxItems, payload \in NameChanges :
          update_inventory_item("admin", id, payload)

SpecItemNames == InitItemNames /\ [][NextItemNames]_vars

(* C19: in every state reached by create_inventory_item and                 *)
(* update_inventory_item requests made one after the other, no two          *)
(* inventory items have the same item_name and the same category.           *)
C19_UniqueNameCategory ==
    \A x, y \in inventory :
        (x.item_name = y.item_name /\ x.category = y.category) => x = y

(* The create half of C19: create_inventory_item with the item_name and     *)
(* category of a stored item is answered 400 and adds no item.              *)
C19_DuplicateCreateRejected ==
    [][ ( /\ last'.op = "create_inventory_item"
          /\ UserRole[last'.caller] = "Admin"
          /\ \E x \in inventory :
                /\ x.item_name = last'.args.item_name
                /\ x.category = last'.args.category )
        => /\ last'.code = 400
           /\ inventory' = inventory ]_vars

-----------------------------------------------------------------------------
(* Doctor profiles: profile 1 is doc1's; profile 2 is doc2's, or is linked  *)
(* to no user (doc2 then has no profile), or is a second profile of doc1.   *)
InitDoctors ==
    /\ patients = {}
    /\ doctors \in {{DoctorRow(1, "doc1"), DoctorRow(2, u)} :
                       u \in {"doc2", None, "doc1"}}
    /\ appointments = {}
    /\ bills = {}
    /\ insurance = {}
    /\ inventory = {}
    /\ records = {}
    /\ nextId = Capped
    /\ users = TokenHolders
    /\ drugs = {}
    /\ reports = {}
    /\ pending = NoRequests
    /\ last = NoResponse

Schedules == [available_from : {"h1"}, available_to : {"h2", "h3"}]

ProfileChanges == {EmptyPayload, [name |-> "nb"], [email |-> "e1"]}

NextDoctors ==
    \/ \E c \in {"admin", "doc1", "doc2"}, id \in 1..MaxProfiles + 1,
          payload \in ProfileChanges : update_doctor(c, id, payload)
    \/ \E c \in {"admin", "doc1", "doc2"}, id \in 1..MaxProfiles + 1,
          schedule \in Schedules : update_doctor_schedule(c, id, schedule)

SpecDoctors == InitDoctors /\ [][NextDoctors]_vars

(* C20: update_doctor and update_doctor_schedule on a stored doctor, called *)
(* by a Doctor-role caller, answer 200 only if the target is a Doctor       *)
(* profile whose user_id is the caller; if it is not, the answer is 403 and *)
(* the doctors are unchanged.  Called by an Admin, they update any stored   *)
(* doctor (update_doctor given at least one field).                         *)
C20_OwnDoctorOnly ==
    [][ ( /\ last'.op \in {"update_doctor", "update_doctor_schedule"}
          /\ \E d \in doctors : d.id = last'.args.id )
        => LET own == \E d \in doctors :
                         /\ d.id = last'.args.id
                         /\ d.user_id = last'.caller
           IN  /\ UserRole[last'.caller] = "Doctor"
                    => /\ last'.code = 200 => own
                       /\ ~own => ( /\ last'.code = 403
                                    /\ doctors' = doctors )
               /\ ( /\ UserRole[last'.caller] = "Admin"
                    /\ \/ last'.op = "update_doctor_schedule"
                       \/ DOMAIN last'.args.payload # {} )
                    => /\ last'.code = 200
                       /\ \E d \in doctors' :
                             /\ d.id = last'.args.id
                             /\ \A f \in DOMAIN last'.args.payload :
                                   d[f] = last'.args.payload[f] ]_vars

(* A Doctor-role caller who has a profile asked for the schedule of another *)
(* stored doctor and was answered 403.                                      *)
C20_Witness ==
    /\ last.op = "update_doctor_schedule"
    /\ last.code = 403
    /\ \E d \in doctors : d.user_id = last.caller
    /\ \E d \in doctors : d.id = last.args.id /\ d.user_id # last.caller

-----------------------------------------------------------------------------
(* app/routers/appointments.py, create_appointment as the database sees it  *)
(* when requests overlap: the queries up to the conflict query are one step *)
(* of process p, db.add and db.commit another.                              *)

(* A variant of the insert that drops a row whose slot is taken. *)
InsertAppointmentMut(new) ==
    IF Conflicting(new) # {} THEN appointments ELSE appointments \cup {new}

(* db.add(new_appointment); db.commit(): the appointments table has no      *)
(* constraint over doctor, date and time.                                   *)
InsertAppointment(new) == appointments \cup {new}

create_appointment_check(p, c, a) ==
    LET op == "create_appointment"
        answer(code, detail) ==
            /\ last' = Response(op, c, a, code, detail, {})
            /\ pending' = [pending EXCEPT
                              ![p] = [pc |-> "done", args |-> a,
                                      code |-> code]]
    IN  /\ pending[p].pc = "idle"
        /\ UNCHANGED <<patients, doctors, appointments, bills, insurance,
                       inventory, records, users, nextId, drugs, reports>>
        /\ IF ~Exists(patients, a.patient_id)
           THEN answer(404, "Patient not found")
           ELSE IF ~Exists(doctors, a.doctor_id)
           THEN answer(404, "Doctor not found")
           ELSE IF Conflicting(a) # {}
           THEN answer(400, "Doctor already has an appointment at this time")
           ELSE /\ pending' = [pending EXCEPT
                                  ![p] = [pc |-> "insert", caller |-> c,
                                          args |-> a]]
                /\ last' = last

create_appointment_insert(p) ==
    /\ pending[p].pc = "insert"
    /\ LET a == pending[p].args
           new == [id |-> nextId.appointment,
                   patient_id |-> a.patient_id,
                   doctor_id |-> a.doctor_id,
                   appointment_date |-> a.appointment_date,
                   appointment_time |-> a.appointment_time,
                   status |-> "Pending",
                   notes |-> a.notes]
       IN  /\ nextId.appointment <= MaxAppointments
           /\ appointments' = InsertAppointment(new)
           /\ nextId' = [nextId EXCEPT !.appointment = @ + 1]
           /\ last' = Response("create_appointment", pending[p].caller, a,
                               201, "", {new})
           /\ pending' = [pending EXCEPT
                             ![p] = [pc |-> "done", args |-> a,
                                     code |-> 201]]
    /\ UNCHANGED <<patients, doctors, bills, insurance, inventory, records,
                   users, drugs, reports>>

(* SpecBookOverlap: each process sends one create_appointment request;      *)
(* nothing is booked at the start.                                          *)
InitBookOverlap ==
    /\ patients = {PatientRow(1, "pat1"), PatientRow(2, "pat2")}
    /\ doctors = {DoctorRow(1, "doc1")}
    /\ appointments = {}
    /\ bills = {}
    /\ insurance = {}
    /\ inventory = {}
    /\ records = {}
    /\ nextId = [Capped EXCEPT !.appointment = 1]
    /\ users = TokenHolders
    /\ drugs = {}
    /\ reports = {}
    /\ pending = NoRequests
    /\ last = NoResponse

BookInputs ==
    [patient_id : {1, 2}, doctor_id : {1, 2}, appointment_date : {"d1"},
     appointment_time : {"t1", "t2"}, notes : {None}]

NextBookOverlap ==
    \/ \E p \in Procs, c \in {"pat1", "rec1"}, a \in BookInputs :
          create_appointment_check(p, c, a)
    \/ \E p \in Procs : create_appointment_insert(p)

SpecBookOverlap == InitBookOverlap /\ [][NextBookOverlap]_vars

(* The stored non-Cancelled appointments in the slot of request a. *)
InSlot(a) ==
    {x \in appointments :
        /\ x.doctor_id = a.doctor_id
        /\ x.appointment_date = a.appointment_date
        /\ x.appointment_time = a.appointment_time
        /\ x.status # "Cancelled"}

(* C21: two create_appointment requests for the same free slot that both    *)
(* ran the conflict query before either inserted both insert: the insert    *)
(* answers 201 and stores its row whatever the slot holds by then, so once  *)
(* both are answered 201 the slot holds two non-Cancelled appointments.     *)
C21_BothInsert ==
    /\ [][ \A p \in Procs :
              (pending[p].pc = "insert" /\ pending'[p].pc = "done")
                 => /\ pending'[p].code = 201
                    /\ Cardinality(InSlot(pending[p].args)') =
                          Cardinality(InSlot(pending[p].args)) + 1 ]_vars
    /\ []( ( /\ \A p \in Procs :
                   pending[p].pc = "done" /\ pending[p].code = 201
             /\ \A p, q \in Procs :
                   /\ pending[p].args.doctor_id = pending[q].args.doctor_id
                   /\ pending[p].args.appointment_time =
                         pending[q].args.appointment_time )
           => Cardinality(InSlot(pending[1].args)) = 2 )

(* Both requests were answered 201 and the slot holds two non-Cancelled     *)
(* appointments.                                                            *)
C21_Witness ==
    /\ \A p \in Procs : pending[p].pc = "done" /\ pending[p].code = 201
    /\ \E x, y \in appointments :
          /\ x # y
          /\ x.doctor_id = y.doctor_id
          /\ x.appointment_date = y.appointment_date
          /\ x.appointment_time = y.appointment_time
          /\ x.status # "Cancelled"
          /\ y.status # "Cancelled"

-----------------------------------------------------------------------------
(* app/routers/billing.py, create_bill as the database sees it when         *)
(* requests overlap: the queries up to the existing-bill query are one step *)
(* of process p, db.add and db.commit another.                              *)

(* A variant of the insert that drops a second bill of an appointment. *)
InsertBillMut(new) ==
    IF ExistingBills(new) # {} THEN bills ELSE bills \cup {new}

(* db.add(new_bill); db.commit(): Bill.appointment_id is indexed, not       *)
(* unique.                                                                  *)
InsertBill(new) == bills \cup {new}

create_bill_check(p, c, b) ==
    LET op == "create_bill"
        answer(code, detail) ==
            /\ last' = Response(op, c, b, code, detail, {})
            /\ pending' = [pending EXCEPT
                              ![p] = [pc |-> "done", args |-> b,
                                      code |-> code]]
    IN  /\ pending[p].pc = "idle"
        /\ UNCHANGED <<patients, doctors, appointments, bills, insurance,
                       inventory, records, users, nextId, drugs, reports>>
        /\ IF Denied(op, c) THEN answer(403, "Not enough permissions")
           ELSE IF ~Exists(appointments, b.appointment_id)
           THEN answer(404, "Appointment not found")
           ELSE IF b.insurance_id # NoId /\ ~Exists(insurance, b.insurance_id)
           THEN answer(404, "Insurance not found")
           ELSE IF ExistingBills(b) # {}
           THEN answer(400, "Bill already exists for this appointment")
           ELSE /\ pending' = [pending EXCEPT
                                  ![p] = [pc |-> "insert", caller |-> c,
                                          args |-> b]]
                /\ last' = last

create_bill_insert(p) ==
    /\ pending[p].pc = "insert"
    /\ LET b == pending[p].args
           new == [id |-> nextId.bill,
                   appointment_id |-> b.appointment_id,
                   insurance_id |-> b.insurance_id,
                   amount |-> b.amount,
                   payment_status |-> "Unpaid",
                   payment_method |-> b.payment_method]
       IN  /\ nextId.bill <= MaxBills
           /\ bills' = InsertBill(new)
           /\ nextId' = [nextId EXCEPT !.bill = @ + 1]
           /\ last' = Response("create_bill", pending[p].caller, b, 201, "",
                               {new})
           /\ pending' = [pending EXCEPT
                             ![p] = [pc |-> "done", args |-> b,
                                     code |-> 201]]
    /\ UNCHANGED <<patients, doctors, appointments, insurance, inventory,
                   records, users, drugs, reports>>

(* SpecBillOverlap: each process sends one create_bill request; two         *)
(* appointments are stored and neither has a bill.                          *)
InitBillOverlap ==
    /\ patients = {PatientRow(1, "pat1")}
    /\ doctors = {DoctorRow(1, "doc1")}
    /\ appointments = {AppointmentRow(1, 1, 1, "t1"),
                       AppointmentRow(2, 1, 1, "t2")}
    /\ bills = {}
    /\ insurance = {}
    /\ inventory = {}
    /\ records = {}
    /\ nextId = [Capped EXCEPT !.bill = 1]
    /\ users = TokenHolders
    /\ drugs = {}
    /\ reports = {}
    /\ pending = NoRequests
    /\ last = NoResponse

OverlapBills ==
    [appointment_id : {1, 2, 3}, insurance_id : {NoId, 1},
     amount : {10, 20}, payment_method : {None}]

NextBillOverlap ==
    \/ \E p \in Procs, c \in {"admin", "pat1"}, b \in OverlapBills :
          create_bill_check(p, c, b)
    \/ \E p \in Procs : create_bill_insert(p)

SpecBillOverlap == InitBillOverlap /\ [][NextBillOverlap]_vars

(* C22: two create_bill requests for the same appointment that both ran the *)
(* existing-bill query before either inserted both insert: the insert       *)
(* answers 201 and stores its bill whatever the appointment has by then, so *)
(* once both are answered 201 the appointment has two bills.                *)
C22_BothBillsInsert ==
    /\ [][ \A p \in Procs :
              (pending[p].pc = "insert" /\ pending'[p].pc = "done")
                 => /\ pending'[p].code = 201
                    /\ Cardinality(ExistingBills(pending[p].args)') =
                          Cardinality(ExistingBills(pending[p].args)) + 1
          ]_vars
    /\ []( ( /\ \A p \in Procs :
                   pending[p].pc = "done" /\ pending[p].code = 201
             /\ pending[1].args.appointment_id =
                   pending[2].args.appointment_id )
           => Cardinality({x \in bills :
                  x.appointment_id = pending[1].args.appointment_id}) = 2 )

(* Both requests were answered 201 and one appointment has two bills. *)
C22_Witness ==
    /\ \A p \in Procs : pending[p].pc = "done" /\ pending[p].code = 201
    /\ \E x, y \in bills : x # y /\ x.appointment_id = y.appointment_id

-----------------------------------------------------------------------------
(* app/routers/medical_records.py, create_medical_record as the database    *)
(* sees it when requests overlap (the handler is a def, run in the thread   *)
(* pool): the queries, the code generation among them, are one step of      *)
(* process p, db.add and db.commit another.                                 *)

(* A variant without the primary key. *)
RecordIdTakenMut(record_id) == FALSE

(* record_id = Column(String(10), primary_key=True): the INSERT of a stored *)
(* record_id fails at commit.                                               *)
RecordIdTaken(record_id) == \E x \in records : x.record_id = record_id

create_medical_record_read(p, c, r) ==
    LET op == "create_medical_record"
        answer(code, detail) ==
            /\ last' = Response(op, c, r, code, detail, {})
            /\ pending' = [pending EXCEPT
                              ![p] = [pc |-> "done", code |-> code,
                                      record_id |-> <<>>]]
    IN  /\ pending[p].pc = "idle"
        /\ UNCHANGED <<patients, doctors, appointments, bills, insurance,
                       inventory, records, users, nextId, drugs, reports>>
        /\ \E doctor \in First(OwnProfiles(doctors, c)) :
              IF Denied(op, c) THEN answer(403, "Not enough permissions")
              ELSE IF ~UserRowExists(c)
              THEN answer(500, "Internal Server Error")
              ELSE IF ~Exists(patients, r.patient_id)
              THEN answer(404, "Patient not found")
              ELSE IF MissingItems(r.prescription) # {}
              THEN answer(400, "Inventory item not found")
              ELSE IF doctor.id = NoId
              THEN answer(500, "Internal Server Error")
              ELSE /\ pending' = [pending EXCEPT
                        ![p] = [pc |-> "insert", caller |-> c, args |-> r,
                                new |-> [record_id |->
                                             FormatCode(NextRecordNumber),
                                         patient_id |-> r.patient_id,
                                         doctor_id |-> doctor.id,
                                         diagnosis |-> r.diagnosis,
                                         prescription |->
                                             PrescriptionData(r.prescription),
                                         vital_signs |-> r.vital_signs,
                                         notes |-> r.notes]]]
                   /\ last' = last

create_medical_record_insert(p) ==
    /\ pending[p].pc = "insert"
    /\ LET req == pending[p]
           answered(code) ==
               pending' = [pending EXCEPT
                              ![p] = [pc |-> "done", code |-> code,
                                      record_id |-> req.new.record_id]]
       IN  IF RecordIdTaken(req.new.record_id)
           THEN /\ last' = Response("create_medical_record", req.caller,
                                    req.args, 500, "Internal Server Error",
                                    {})
                /\ answered(500)
                /\ UNCHANGED records
           ELSE /\ Cardinality(records) < MaxRecords
                /\ records' = records \cup {req.new}
                /\ last' = Response("create_medical_record", req.caller,
                                    req.args, 201, "", {req.new})
                /\ answered(201)
    /\ UNCHANGED <<patients, doctors, appointments, bills, insurance,
                   inventory, users, nextId, drugs, reports>>

(* SpecRecordOverlap: each process sends one create_medical_record request; *)
(* no record or one record is stored at the start.                          *)
InitRecordOverlap ==
    /\ patients = {PatientRow(1, "pat1")}
    /\ doctors = {DoctorRow(1, "doc1")}
    /\ appointments = {}
    /\ bills = {}
    /\ insurance = {}
    /\ inventory = {ItemRow(1, "i1", 2)}
    /\ records \in {{}, {RecordRow(1, 1, 1)}}
    /\ nextId = Capped
    /\ users = TokenHolders
    /\ drugs = {}
    /\ reports = {}
    /\ pending = NoRequests
    /\ last = NoResponse

OverlapRecords ==
    [patient_id : {1, 2}, diagnosis : {"dx1", "dx2"},
     prescription : {<<>>, Rx(1)}, vital_signs : {None}, notes : {None}]

NextRecordOverlap ==
    \/ \E p \in Procs, c \in {"doc1", "doc2", "pat1"}, r \in OverlapRecords :
          create_medical_record_read(p, c, r)
    \/ \E p \in Procs : create_medical_record_insert(p)

SpecRecordOverlap == InitRecordOverlap /\ [][NextRecordOverlap]_vars

(* C23: under any interleaving of two create_medical_record requests no two *)
(* stored records have the same record_id; a request whose generated code   *)
(* is stored by the time it inserts is answered 500 (not 400 or 409) and    *)
(* stores nothing, so of two requests that generated the same code at most  *)
(* one is stored.                                                           *)
C23_DuplicateCodeServerError ==
    /\ [](\A x, y \in records : x.record_id = y.record_id => x = y)
    /\ [][ \A p \in Procs :
              ( /\ pending[p].pc = "insert"
                /\ pending'[p].pc = "done"
                /\ \E x \in records :
                      x.record_id = pending[p].new.record_id )
                 => /\ last'.code = 500
                    /\ records' = records ]_vars
    /\ []( ( /\ \A p \in Procs :
                   pending[p].pc = "done" /\ pending[p].record_id # <<>>
             /\ pending[1].record_id = pending[2].record_id )
           => \E p \in Procs : pending[p].code = 500 )

(* Both requests generated the same code; one was stored and answered 201,  *)
(* the other was answered 500.                                              *)
C23_Witness ==
    /\ \A p \in Procs : pending[p].pc = "done" /\ pending[p].record_id # <<>>
    /\ pending[1].record_id = pending[2].record_id
    /\ \E p, q \in Procs : pending[p].code = 201 /\ pending[q].code = 500
    /\ last.code = 500
    /\ Cardinality({x \in records : x.record_id = pending[1].record_id}) = 1

-----------------------------------------------------------------------------
(* app/routers/pharmacy.py, dispense_drugs as the database sees it when     *)
(* requests overlap (the handler is a def, run in the thread pool): the     *)
(* prescription query and status test are one step of process p, each pass  *)
(* of the loop over drugs_list one step, the commit another.  staged holds  *)
(* the quantities the request assigned to the drug rows it selected FOR     *)
(* UPDATE; it keeps those rows locked until it commits or rolls back.       *)

(* A variant that selects the drug row without FOR UPDATE. *)
LockedMut(p, drug_id) == FALSE

(* .with_for_update(): the SELECT of process p waits while another open     *)
(* transaction holds the lock of the row.                                   *)
Locked(p, drug_id) ==
    \E q \in Procs \ {p} :
        /\ pending[q].pc = "loop"
        /\ drug_id \in DOMAIN pending[q].staged

(* record = ...first(); the 404; record.status read (AttributeError when    *)
(* the row has no status attribute); the 400.                               *)
dispense_start(p, c, request) ==
    LET op == "dispense_drugs"
        found == {x \in records : x.record_id = request.prescription_id}
        answer(code, detail) ==
            /\ last' = Response(op, c, request, code, detail, {})
            /\ pending' = [pending EXCEPT
                              ![p] = [pc |-> "done", args |-> request,
                                      code |-> code]]
    IN  /\ pending[p].pc = "idle"
        /\ UNCHANGED <<patients, doctors, appointments, bills, insurance,
                       inventory, records, drugs, reports, users, nextId>>
        /\ IF found = {} THEN answer(404, "Prescription not found")
           ELSE LET record == CHOOSE x \in found : TRUE IN
                IF "status" \notin DOMAIN record
                THEN answer(500, "Internal Server Error")
                ELSE IF record.status = "Dispensed"
                THEN answer(400, "Already dispensed")
                ELSE /\ pending' = [pending EXCEPT
                           ![p] = [pc |-> "loop", caller |-> c,
                                   args |-> request, i |-> 1,
                                   staged |-> <<>>]]
                     /\ last' = last

(* One pass of `for item in request.drugs_list'; an HTTPException leaves    *)
(* the try block uncommitted and get_db closes the session, which rolls     *)
(* back and releases the locks.                                             *)
dispense_item(p) ==
    /\ pending[p].pc = "loop"
    /\ pending[p].i <= Len(pending[p].args.drugs_list)
    /\ LET req == pending[p]
           item == req.args.drugs_list[req.i]
           rows == {d \in drugs : d.drug_id = item.drug_id}
           answer(code, detail) ==
               /\ last' = Response("dispense_drugs", req.caller, req.args,
                                   code, detail, {})
               /\ pending' = [pending EXCEPT
                                 ![p] = [pc |-> "done", args |-> req.args,
                                         code |-> code]]
       IN  /\ ~Locked(p, item.drug_id)
           /\ IF rows = {} THEN answer(404, "Drug not found")
              ELSE LET drug == CHOOSE d \in rows : TRUE
                       quantity == IF item.drug_id \in DOMAIN req.staged
                                   THEN req.staged[item.drug_id]
                                   ELSE drug.quantity
                   IN  IF quantity < item.quantity
                       THEN answer(400, "Insufficient stock")
                       ELSE /\ pending' = [pending EXCEPT
                                  ![p].i = @ + 1,
                                  ![p].staged =
                                      [g \in DOMAIN @ \cup {item.drug_id} |->
                                          IF g = item.drug_id
                                          THEN quantity - item.quantity
                                          ELSE @[g]]]
                            /\ last' = last
    /\ UNCHANGED <<patients, doctors, appointments, bills, insurance,
                   inventory, records, drugs, reports, users, nextId>>

(* record.status = "Dispensed"; db.commit() *)
dispense_commit(p) ==
    /\ pending[p].pc = "loop"
    /\ pending[p].i > Len(pending[p].args.drugs_list)
    /\ LET req == pending[p] IN
       /\ drugs' = {IF d.drug_id \in DOMAIN req.staged
                    THEN [d EXCEPT !.quantity = req.staged[d.drug_id]]
                    ELSE d : d \in drugs}
       /\ records' = {IF x.record_id = req.args.prescription_id
                      THEN [x EXCEPT !.status = "Dispensed"]
                      ELSE x : x \in records}
       /\ last' = Response("dispense_drugs", req.caller, req.args, 200, "",
                           [message |-> "Drugs dispensed successfully"])
       /\ pending' = [pending EXCEPT
                         ![p] = [pc |-> "done", args |-> req.args,
                                 code |-> 200]]
    /\ UNCHANGED <<patients, doctors, appointments, bills, insurance,
                   inventory, reports, users, nextId>>

(* SpecDispense: each process sends one dispense_drugs request.  Two drugs  *)
(* are in stock and two prescriptions are stored; the medical_records rows  *)
(* either carry the status attribute dispense_drugs reads (not dispensed    *)
(* yet) or, as MedicalRecord is declared, carry none.                       *)
InitialStock == [g1 |-> 2, g2 |-> 1]

DrugRow(drug_id) ==
    [drug_id |-> drug_id, drug_name |-> drug_id,
     quantity |-> InitialStock[drug_id], reorder_level |-> 1]

WithStatus(record) ==
    [f \in DOMAIN record \cup {"status"} |->
        IF f = "status" THEN None ELSE record[f]]

InitDispense ==
    /\ patients = {PatientRow(1, "pat1")}
    /\ doctors = {DoctorRow(1, "doc1")}
    /\ appointments = {}
    /\ bills = {}
    /\ insurance = {}
    /\ inventory = {}
    /\ records \in {{RecordRow(1, 1, 1), RecordRow(2, 1, 1)},
                    {WithStatus(RecordRow(1, 1, 1)),
                     WithStatus(RecordRow(2, 1, 1))}}
    /\ nextId = Capped
    /\ users = TokenHolders
    /\ drugs = {DrugRow("g1"), DrugRow("g2")}
    /\ reports = {}
    /\ pending = NoRequests
    /\ last = NoResponse

DrugLists ==
    {<<[drug_id |-> g, quantity |-> n]>> : g \in {"g1", "g3"}, n \in {1, 2}}
    \cup {<<[drug_id |-> "g1", quantity |-> 1],
            [drug_id |-> g, quantity |-> n]>> :
             g \in {"g2", "g3"}, n \in {1, 2}}

DispenseRequests ==
    [prescription_id : {FormatCode(1), FormatCode(2), FormatCode(3)},
     drugs_list : DrugLists]

NextDispense ==
    \/ \E p \in Procs, request \in DispenseRequests :
          dispense_start(p, "pharm1", request)
    \/ \E p \in Procs : dispense_item(p)
    \/ \E p \in Procs : dispense_commit(p)

SpecDispense == InitDispense /\ [][NextDispense]_vars

(* The quantity the lines of a drugs_list ask of one drug, and the quantity *)
(* the requests answered 200 asked of it.                                   *)
RECURSIVE LineSum(_, _)
LineSum(lines, drug_id) ==
    IF lines = <<>> THEN 0
    ELSE (IF Head(lines).drug_id = drug_id THEN Head(lines).quantity ELSE 0)
         + LineSum(Tail(lines), drug_id)

RECURSIVE CommittedSum(_, _)
CommittedSum(ps, drug_id) ==
    IF ps = {} THEN 0
    ELSE LET p == CHOOSE x \in ps : TRUE
         IN  (IF pending[p].pc = "done" /\ pending[p].code = 200
              THEN LineSum(pending[p].args.drugs_list, drug_id) ELSE 0)
             + CommittedSum(ps \ {p}, drug_id)

-----------------------------------------------------------------------------
(* Deletes: two patients and two doctors with three billed appointments     *)
(* between them; patient 2 and doctor 2 may have a medical record.          *)
InitCascade ==
    /\ patients = {PatientRow(1, "pat1"), PatientRow(2, "pat2")}
    /\ doctors = {DoctorRow(1, "doc1"), DoctorRow(2, "doc2")}
    /\ appointments = {AppointmentRow(1, 1, 1, "t1"),
                       AppointmentRow(2, 1, 2, "t1"),
                       AppointmentRow(3, 2, 1, "t2")}
    /\ bills \in {{BillRow(1, 1), BillRow(2, 2), BillRow(3, 3)},
                  {BillRow(1, 1), BillRow(2, 1), BillRow(3, 3)}}
    /\ insurance = {}
    /\ inventory = {}
    /\ records \in {{}, {RecordRow(1, 2, 2)}}
    /\ nextId = Capped
    /\ users = TokenHolders
    /\ drugs = {}
    /\ reports = {}
    /\ pending = NoRequests
    /\ last = NoResponse

NextCascade ==
    \/ \E c \in {"admin", "rec1"}, id \in 1..3 : delete_patient(c, id)
    \/ \E c \in {"admin", "rec1"}, id \in 1..3 : delete_doctor(c, id)
    \/ \E c \in {"admin", "pat1", "pat2"}, id \in 1..4 :
          cancel_appointment(c, id)

SpecCascade == InitCascade /\ [][NextCascade]_vars

(* C25: after any sequence of delete_patient, delete_doctor and             *)
(* cancel_appointment requests every stored appointment references a stored *)
(* patient and a stored doctor, and every stored bill references a stored   *)
(* appointment.                                                             *)
C25_NoOrphans ==
    /\ \A a \in appointments :
          /\ \E p \in patients : p.id = a.patient_id
          /\ \E d \in doctors : d.id = a.doctor_id
    /\ \A b \in bills : \E a \in appointments : a.id = b.appointment_id

(* A patient who had billed appointments has been deleted. *)
C25_Witness ==
    /\ last.op = "delete_patient"
    /\ last.code = 204
    /\ last.args.id = 1
    /\ bills # {}

-----------------------------------------------------------------------------
(* app/routers/reports.py *)

(* json.loads on the texts the model sends: a text is a sequence of the     *)
(* characters "[", "]" and "1"; the JSON values among them are the number   *)
(* 1, the empty array and an array of one value.                            *)
RECURSIVE WellFormedJson(_)
WellFormedJson(text) ==
    \/ text = <<"1">>
    \/ text = <<"[", "]">>
    \/ /\ Len(text) >= 3
       /\ text[1] = "["
       /\ text[Len(text)] = "]"
       /\ WellFormedJson(SubSeq(text, 2, Len(text) - 1))

(* db.query(model).order_by(model.created_at.desc()).all() *)
ReportData(report_type) ==
    CASE report_type = "patients" -> patients
      [] report_type = "doctors" -> doctors
      [] report_type = "appointments" -> appointments
      [] report_type = "billing" -> bills
      [] report_type = "inventory" -> inventory

valid_types == {"patients", "doctors", "appointments", "billing", "inventory"}

(* filters is None when the query parameter is absent.  `if filters' is     *)
(* false for None and for the empty text; json.loads raises JSONDecodeError *)
(* on a text that is no JSON value, and the handler does not catch it.      *)
generate_custom_report(c, report_type, filters) ==
    LET op == "generate_custom_report"
        args == [report_type |-> report_type, filters |-> filters]
    IN  IF Denied(op, c) THEN NotEnoughPermissions(op, c, args)
        ELSE (
            IF report_type \notin valid_types
            THEN Raise(op, c, args, 400, "Invalid report type")
            ELSE IF filters # None /\ filters # <<>>
                    /\ ~WellFormedJson(filters)
            THEN ServerError(op, c, args)
            ELSE LET data == ReportData(report_type)
                     new_report ==
                         [id |-> nextId.report, type |-> report_type,
                          generated_by |-> get_current_user(c).id,
                          filters_applied |->
                              IF filters # None /\ filters # <<>>
                              THEN filters ELSE None,
                          data_summary |-> Cardinality(data)]
                 IN  /\ nextId.report <= MaxReports
                     /\ reports' = reports \cup {new_report}
                     /\ nextId' = [nextId EXCEPT !.report = @ + 1]
                     /\ last' = Response(op, c, args, 200, "",
                                         [report_id |-> new_report.id,
                                          data |-> data])
                     /\ UNCHANGED <<patients, doctors, appointments, bills,
                                    insurance, inventory, records, drugs,
                                    users, pending>>)

InitReports ==
    /\ patients = {PatientRow(1, "pat1")}
    /\ doctors = {DoctorRow(1, "doc1")}
    /\ appointments = {AppointmentRow(1, 1, 1, "t1")}
    /\ bills = {}
    /\ insurance = {}
    /\ inventory = {}
    /\ records = {}
    /\ nextId = [Capped EXCEPT !.report = 1]
    /\ users = TokenHolders
    /\ drugs = {}
    /\ reports = {}
    /\ pending = NoRequests
    /\ last = NoResponse

FilterTexts ==
    {None, <<>>, <<"1">>, <<"[">>, <<"[", "]">>, <<"]", "[">>,
     <<"[", "1">>, <<"[", "1", "]">>, <<"[", "[", "]">>}

NextReports ==
    \E c \in {"admin", "doc1"},
       report_type \in {"patients", "appointments", "billing", "nurses"},
       filters \in FilterTexts :
          generate_custom_report(c, report_type, filters)

SpecReports == InitReports /\ [][NextReports]_vars

(* C26: generate_custom_report called by an Admin with a valid report_type  *)
(* and a non-empty filters text that is not well-formed JSON is answered    *)
(* 400 and stores no Report row.                                            *)
C26_MalformedFilterRejected ==
    [][ ( /\ last'.op = "generate_custom_report"
          /\ UserRole[last'.caller] = "Admin"
          /\ last'.args.report_type \in valid_types
          /\ last'.args.filters # None
          /\ last'.args.filters # <<>>
          /\ ~WellFormedJson(last'.args.filters) )
        => /\ last'.code = 400
           /\ reports' = reports ]_vars

-----------------------------------------------------------------------------
(* SpecProfiles: the profile tables start empty; an Admin creates doctor    *)
(* and patient profiles, unlinked or linked to a registered user, and       *)
(* visitors register.                                                       *)

InitProfiles ==
    /\ patients = {}
    /\ doctors = {}
    /\ appointments = {}
    /\ bills = {}
    /\ insurance = {}
    /\ inventory = {}
    /\ records = {}
    /\ nextId = [Capped EXCEPT !.patient = 1, !.doctor = 1, !.user = 1]
    /\ users = TokenHolders
    /\ drugs = {}
    /\ reports = {}
    /\ pending = NoRequests
    /\ last = NoResponse

DoctorInputs ==
    {[ProfileInput EXCEPT !.user_id = u, !.name = "na", !.email = "e2"] :
        u \in {NoUser, "doc1", "pat1"}}

PatientInputs ==
    {[name |-> "na", email |-> "e1", contact |-> None, user_id |-> u] :
        u \in {NoUser, "pat1", "doc1"}}

NextProfiles ==
    \/ \E user \in UserInputs : register(user)
    \/ \E d \in DoctorInputs : create_doctor("admin", d)
    \/ \E p \in PatientInputs : create_patient("admin", p)

SpecProfiles == InitProfiles /\ [][NextProfiles]_vars

(* Two rows of the table carry the same user. *)
SharedUser(table) ==
    \E r1, r2 \in table :
        r1.id # r2.id /\ r1.user_id # NoUser /\ r1.user_id = r2.user_id

(* C27: after any sequence of register, create_doctor and create_patient    *)
(* requests at most one Doctor profile and at most one Patient profile      *)
(* carries a given user_id.                                                 *)
C27_OneProfilePerUser == ~SharedUser(doctors) /\ ~SharedUser(patients)

(* The rows of the table that were linked before the step keep their user. *)
LinksKept(table, table_after) ==
    \A r \in table :
        r.user_id # NoUser =>
            \A r2 \in table_after : r2.id = r.id => r2.user_id = r.user_id

(* C28: register never changes the user_id of a Doctor or Patient profile   *)
(* whose user_id was already set to another user.                           *)
C28_LinksUnlinkedOnly ==
    [][ (last'.op = "register" /\ last'.code = 201) =>
            /\ LinksKept(doctors, doctors')
            /\ LinksKept(patients, patients') ]_vars

-----------------------------------------------------------------------------
(* The appointment read routes of app/routers/appointments.py,              *)
(* app/routers/patients.py and app/routers/doctors.py.  Each depends on     *)
(* get_current_user alone: any valid token passes.                          *)

get_appointment(c, appointment_id) ==
    LET op == "get_appointment"
        args == [id |-> appointment_id]
    IN  IF ~Exists(appointments, appointment_id)
        THEN Raise(op, c, args, 404, "Appointment not found")
        ELSE /\ last' = Response(op, c, args, 200, "",
                                 {Row(appointments, appointment_id)})
             /\ DbUnchanged

(* The dict get_appointment_with_details builds from the appointment and    *)
(* its patient and doctor relationships.                                    *)
Details(appointment) ==
    [id |-> appointment.id,
     appointment_date |-> appointment.appointment_date,
     appointment_time |-> appointment.appointment_time,
     status |-> appointment.status,
     notes |-> appointment.notes,
     patient |-> [id |-> appointment.patient_id,
                  name |-> Row(patients, appointment.patient_id).name,
                  contact |-> Row(patients, appointment.patient_id).contact],
     doctor |-> [id |-> appointment.doctor_id,
                 name |-> Row(doctors, appointment.doctor_id).name]]

get_appointment_with_details(c, appointment_id) ==
    LET op == "get_appointment_with_details"
        args == [id |-> appointment_id]
    IN  IF ~Exists(appointments, appointment_id)
        THEN Raise(op, c, args, 404, "Appointment not found")
        ELSE /\ last' = Response(op, c, args, 200, "",
                                 {Details(Row(appointments, appointment_id))})
             /\ DbUnchanged

get_patient_appointments(c, patient_id) ==
    LET op == "get_patient_appointments"
        args == [id |-> patient_id]
    IN  IF ~Exists(patients, patient_id)
        THEN Raise(op, c, args, 404, "Patient not found")
        ELSE LET patient == Row(patients, patient_id)
             IN  /\ last' = Response(op, c, args, 200, "",
                        {[patient_id |-> patient.id,
                          patient_name |-> patient.name,
                          appointments |->
                              Matching(appointments, "patient_id",
                                       patient.id)]})
                 /\ DbUnchanged

(* The path parameter doctor_id is compared with Doctor.user_id. *)
get_doctor_appointments(c, doctor_id) ==
    LET op == "get_doctor_appointments"
        args == [id |-> doctor_id]
    IN  \E doctor \in First(Matching(doctors, "user_id", doctor_id)) :
            IF doctor.id = NoId
            THEN Raise(op, c, args, 404, "Doctor not found")
            ELSE /\ last' = Response(op, c, args, 200, "",
                        Matching(appointments, "doctor_id", doctor.id))
                 /\ DbUnchanged

(* SpecReads: two patients, each linked to one user and each with one       *)
(* appointment with the one doctor; every token holder reads, an Admin      *)
(* edits the notes.                                                         *)

InitReads ==
    /\ patients = {PatientRow(1, "pat1"), PatientRow(2, "pat2")}
    /\ doctors = {DoctorRow(1, "doc1")}
    /\ appointments = {AppointmentRow(1, 1, 1, "t1"),
                       AppointmentRow(2, 2, 1, "t2")}
    /\ bills = {}
    /\ insurance = {}
    /\ inventory = {}
    /\ records = {}
    /\ nextId = Capped
    /\ users = TokenHolders
    /\ drugs = {}
    /\ reports = {}
    /\ pending = NoRequests
    /\ last = NoResponse

Readers == {"admin", "doc1", "pat1", "pat2"}

NextReads ==
    \/ \E c \in Readers : get_all_appointments(c)
    \/ \E c \in Readers, id \in 1..3 : get_appointment(c, id)
    \/ \E c \in Readers, id \in 1..3 : get_appointment_with_details(c, id)
    \/ \E c \in Readers, id \in 1..3 : get_patient_appointments(c, id)
    \/ \E c \in Readers, id \in {"doc1", "doc2"} :
          get_doctor_appointments(c, id)
    \/ \E id \in 1..2 : update_appointment("admin", id, [notes |-> "n1"])

SpecReads == InitReads /\ [][NextReads]_vars

ReadOperations ==
    {"get_all_appointments", "get_appointment",
     "get_appointment_with_details", "get_patient_appointments",
     "get_doctor_appointments"}

(* The patient ids of the appointments a read response carries. *)
ShownPatients(response) ==
    IF response.op = "get_appointment_with_details"
    THEN {r.patient.id : r \in response.result}
    ELSE IF response.op = "get_patient_appointments"
    THEN {a.patient_id : a \in UNION {r.appointments : r \in response.result}}
    ELSE {a.patient_id : a \in response.result}

(* C30: every appointment that an appointment read operation returns to a   *)
(* Patient-role caller belongs to the caller's own Patient profile, so the  *)
(* response carries nothing of other patients' appointments.                *)
C30_PatientReadsOwnOnly ==
    (/\ last.op \in ReadOperations
     /\ UserRole[last.caller] = "Patient"
     /\ last.code = 200)
        => \A id \in ShownPatients(last) :
               \E p \in OwnProfiles(patients, last.caller) : p.id = id

====
